---- MODULE Spec2Model ----
(***************************************************************************)
(* The shell-execution tool server of src/shell_exec.py: a line-delimited  *)
(* JSON-RPC loop over stdin/stdout (Shell.run) that answers initialize,     *)
(* tools/list and tools/call, running the command of a tools/call through   *)
(* subprocess.run under a 300 second timeout.                               *)
(*                                                                          *)
(* Python values.  A dict is a TLA+ function whose domain is its key set,   *)
(* so a missing key is a key outside DOMAIN.  A JSON value that is not an   *)
(* object (null, a list) is [notdict |-> <python type name>]: it has no     *)
(* .get, which is what the code trips over.  A str is a TLA+ string; a      *)
(* text that may hold characters JSON must escape is a sequence of chunks,  *)
(* where the chunks "\n", "\"" and "\\" are those single characters and any *)
(* other chunk is a run of ordinary characters.                             *)
(***************************************************************************)
EXTENDS Integers, Sequences, FiniteSets, TLC

VARIABLES
    environ,    \* os.environ of the server process
    root,       \* self.root, set by Shell.__init__
    pc,         \* where Shell.run is: "read" (line 14), "run" (blocked in
                \* subprocess.run, line 34, the child running), "reap" (still
                \* in subprocess.run after the timeout: the shell is killed
                \* and the pipes are read to their end), "done" (after the
                \* break), "crashed" (an exception left Shell.run)
    cur,        \* locals rid, cmd, cwd of the tools/call being run
    stdout,     \* every character written to the output stream, as chunks
    inflight,   \* number of child commands started and not yet reaped
    executed,   \* history: the commands handed to the interpreter, in order
    log,        \* history: one entry per input line the loop consumed
    stolen,     \* history: number of input lines a child command consumed
    \* the MLflow server, src/servers_MCP/server_mlflow/server.py
    mpc,        \* where the MLflow server process is: "config" (line 46),
                \* "client" (line 54), "check" (line 71), "main" (line 654),
                \* "serving" (inside mcp.run()), "exited"
    cfg,        \* module global cfg
    mlflow_client,  \* module global mlflow_client
    logfile,    \* the records written to mlflow_server.log
    stdio,      \* what the server itself wrote to stdout or stderr
    exit_code,  \* <<>> while the process lives, <<code>> once it has exited
    startup,    \* history: the outcome of each startup step taken
    responses,  \* history: the tool calls served and what each returned
    \* the GitHub server, src/servers_MCP/server_github_remote/server.py
    urlopened,  \* history: every request handed to request.urlopen
    fetched     \* history: the github_get_artifact_file calls and results

shell_vars == <<environ, root, pc, cur, stdout, inflight, executed, log, stolen>>

mlflow_vars ==
    <<mpc, cfg, mlflow_client, logfile, stdio, exit_code, startup, responses>>

github_vars == <<urlopened, fetched>>

vars == <<shell_vars, mlflow_vars, github_vars>>

(***************************************************************************)
(* Bounds of the model.                                                    *)
(***************************************************************************)
MaxLines == 2       \* input lines of a session, every kind of line
MaxLongLines == 3   \* input lines of a session over the few LongLines

(***************************************************************************)
(* Python and JSON helpers.                                                *)
(***************************************************************************)
None == "None"

EmptyDict == [k \in {} |-> None]

\* dict.get(k, default); dict.get(k) is Get(d, k, None)
Get(d, k, default) == IF k \in DOMAIN d THEN d[k] ELSE default

IsDict(v) == "notdict" \notin DOMAIN v

\* a message that hides what went wrong
AttributeErrorMsg_Generic(v) == <<"Internal error">>

\* str(e) of the AttributeError raised by v.get when v is not a dict
AttributeErrorMsg(v) == <<"'" \o v.notdict \o "' object has no attribute 'get'">>

RECURSIVE Flatten(_)
Flatten(ss) == IF ss = <<>> THEN <<>> ELSE Head(ss) \o Flatten(Tail(ss))

(***************************************************************************)
(* json.dumps, as far as line framing depends on it: the characters of a   *)
(* string that JSON escapes are escaped, everything else is copied.        *)
(***************************************************************************)
EscapeChunk(c) ==
    CASE c = "\n" -> <<"\\", "n">>
      [] c = "\r" -> <<"\\", "r">>
      [] c = "\"" -> <<"\\", "\"">>
      [] c = "\\" -> <<"\\", "\\">>
      [] OTHER    -> <<c>>

json_dumps_str(s) ==
    <<"\"">> \o Flatten([i \in 1..Len(s) |-> EscapeChunk(s[i])]) \o <<"\"">>

json_dumps_id(rid) == IF rid = None THEN <<"null">> ELSE <<"\"", rid, "\"">>

json_dumps_tool(t) ==
    <<"{\"name\": \"", t.name, "\", \"description\": \"", t.description,
      "\", \"inputSchema\": {\"type\": \"", t.inputSchema.type,
      "\", \"properties\": {\"command\": {\"type\": \"",
      t.inputSchema.properties.command.type, "\", \"description\": \"",
      t.inputSchema.properties.command.description,
      "\"}, \"cwd\": {\"type\": \"", t.inputSchema.properties.cwd.type,
      "\", \"description\": \"", t.inputSchema.properties.cwd.description,
      "\"}}, \"required\": [\"", t.inputSchema.required[1], "\"]}}">>

json_dumps_result(r) ==
    IF "protocolVersion" \in DOMAIN r
    THEN <<"{\"protocolVersion\": \"", r.protocolVersion,
           "\", \"capabilities\": {\"tools\": {}}, \"serverInfo\": {\"name\": \"",
           r.serverInfo.name, "\", \"version\": \"", r.serverInfo.version, "\"}}">>
    ELSE IF "tools" \in DOMAIN r
    THEN <<"{\"tools\": [">>
         \o Flatten([i \in 1..Len(r.tools) |-> json_dumps_tool(r.tools[i])])
         \o <<"]}">>
    ELSE <<"{\"type\": \"", r.type, "\", \"content\": [">>
         \o Flatten([i \in 1..Len(r.content) |->
                <<"{\"type\": \"", r.content[i].type, "\", \"text\": ">>
                \o json_dumps_str(r.content[i].text) \o <<"}">>])
         \o <<"]}">>

json_dumps_error(e) ==
    <<"{\"code\": ", ToString(e.code), ", \"message\": ">>
    \o json_dumps_str(e.message) \o <<"}">>

\* json.dumps(msg) for the envelopes Shell.run builds, keys in insertion order
json_dumps(msg) ==
    <<"{\"jsonrpc\": \"", msg.jsonrpc, "\"">>
    \o (IF "id" \in DOMAIN msg
        THEN <<", \"id\": ">> \o json_dumps_id(msg.id) ELSE <<>>)
    \o (IF "result" \in DOMAIN msg
        THEN <<", \"result\": ">> \o json_dumps_result(msg.result) ELSE <<>>)
    \o (IF "error" \in DOMAIN msg
        THEN <<", \"error\": ">> \o json_dumps_error(msg.error) ELSE <<>>)
    \o <<"}">>

\* print(s, flush=True): the text and a newline
print(stream, s) == stream \o s \o <<"\n">>

\* Shell.send
send(stream, msg) == print(stream, json_dumps(msg))

(***************************************************************************)
(* The envelopes Shell.run builds.                                         *)
(***************************************************************************)
\* an initialize that answers what the session has been asked before: the
\* protocol version is given on the first id only
InitializeResponse_Once(rid) ==
    [jsonrpc |-> "2.0", id |-> rid,
     result |-> [protocolVersion |-> IF rid = "1" THEN "2025-06-18" ELSE "",
                 capabilities |-> [tools |-> EmptyDict],
                 serverInfo |-> [name |-> "shell-exec", version |-> "1.0"]]]

InitializeResponse(rid) ==
    [jsonrpc |-> "2.0", id |-> rid,
     result |-> [protocolVersion |-> "2025-06-18",
                 capabilities |-> [tools |-> EmptyDict],
                 serverInfo |-> [name |-> "shell-exec", version |-> "1.0"]]]

ToolRegistry ==
    << [name |-> "execute_command",
        description |-> "Execute shell command",
        inputSchema |->
            [type |-> "object",
             properties |->
                [command |-> [type |-> "string", description |-> "Command to execute"],
                 cwd |-> [type |-> "string", description |-> "Working directory"]],
             required |-> <<"command">>]] >>

\* a registry that grows at run time: every command run registers the tool
\* once more
ToolsListResponse_Dynamic(rid) ==
    [jsonrpc |-> "2.0", id |-> rid,
     result |-> [tools |-> IF executed = <<>>
                           THEN ToolRegistry ELSE ToolRegistry \o ToolRegistry]]

ToolsListResponse(rid) ==
    [jsonrpc |-> "2.0", id |-> rid, result |-> [tools |-> ToolRegistry]]

ToolResultResponse(rid, text) ==
    [jsonrpc |-> "2.0", id |-> rid,
     result |-> [type |-> "tool_result",
                 content |-> << [type |-> "text", text |-> text] >>]]

NotFoundResponse(rid) ==
    [jsonrpc |-> "2.0", id |-> rid,
     error |-> [code |-> -32601, message |-> <<"Not found">>]]

\* an error envelope that also carries an (empty) tool result
InternalErrorResponse_WithResult(message) ==
    [jsonrpc |-> "2.0",
     result |-> [type |-> "tool_result", content |-> <<>>],
     error |-> [code |-> -32603, message |-> message]]

\* the envelope of the except handler of the loop: it has no id
InternalErrorResponse(message) ==
    [jsonrpc |-> "2.0", error |-> [code |-> -32603, message |-> message]]

(***************************************************************************)
(* The texts of a tools/call result.                                       *)
(***************************************************************************)
CompletedText(returncode, out, err) ==
    <<"Exit Code: ", ToString(returncode), "\n", "\n", "STDOUT:", "\n">>
    \o out \o <<"\n", "\n", "STDERR:", "\n">> \o err

\* a timeout text that appends what the child had printed so far
TimeoutText_WithPartial(exc) ==
    <<"Error: Command timeout (5 minutes)">> \o exc.stdout

\* the text for subprocess.TimeoutExpired; exc.stdout is the partial output
TimeoutText(exc) == <<"Error: Command timeout (5 minutes)">>

ExceptionText(message) == <<"Error: ">> \o message

(***************************************************************************)
(* The input stream.  A line is either text json.loads rejects, or the     *)
(* text of a JSON value, given by that value.                              *)
(***************************************************************************)
Ids == {"1", "2"}

NotJson == {"{bad", ""}     \* the second is a blank line

JSONDecodeErrorMsg(text) ==
    IF text = ""
    THEN <<"Expecting value: line 2 column 1 (char 1)">>
    ELSE <<"Expecting property name enclosed in double quotes: line 1 column 2 (char 1)">>

\* requests and notifications of the methods that take no params, requests
\* of a misspelt method and requests without a method
SimpleRequests ==
    {[jsonrpc |-> "2.0", id |-> i, method |-> m] :
        i \in Ids, m \in {"initialize", "tools/list", "ping"}}
    \cup {[jsonrpc |-> "2.0", method |-> m] : m \in {"initialize", "tools/list", "ping"}}
    \cup {[jsonrpc |-> "2.0", id |-> "1", method |-> "Initialize"]}
    \cup {[jsonrpc |-> "2.0", id |-> "2"]}

\* params of a tools/call that runs a command if the interpreter starts
RunnableParams ==
    { [name |-> "execute_command", arguments |-> [command |-> "echo hi"]],
      [name |-> "other_tool",
       arguments |-> [command |-> "sleep 400", cwd |-> "/tmp"]] }

\* params of a tools/call that has no command to run
BrokenParams ==
    { [notdict |-> "list"],
      [name |-> "execute_command", arguments |-> [notdict |-> "NoneType"]],
      [name |-> "execute_command", arguments |-> [cwd |-> "/tmp"]] }

CallRequests ==
    {[jsonrpc |-> "2.0", id |-> i, method |-> "tools/call", params |-> p] :
        i \in Ids, p \in RunnableParams \cup BrokenParams}
    \cup {[jsonrpc |-> "2.0", id |-> i, method |-> "tools/call"] : i \in Ids}
    \cup {[jsonrpc |-> "2.0", method |-> "tools/call",
           params |-> [name |-> "execute_command",
                       arguments |-> [command |-> "echo hi"]]]}
    \cup {[jsonrpc |-> "2.0", method |-> "tools/call"]}

Lines ==
    {[valid |-> FALSE, text |-> t] : t \in NotJson}
    \cup {[valid |-> TRUE, value |-> [notdict |-> "list"]]}
    \cup {[valid |-> TRUE, value |-> r] : r \in SimpleRequests \cup CallRequests}

\* what readline returns for the line: its text, which is not spelt out for
\* a JSON value, and the newline that ends it
RawLine(line) ==
    (IF line.valid THEN <<"{...}">>
     ELSE IF line.text = "" THEN <<>> ELSE <<line.text>>) \o <<"\n">>

\* a test that takes a blank line for the end: if not line.strip()
Breaks_Stripped(line) == ~line.valid /\ line.text = ""

\* if not line: break
Breaks(line) == RawLine(line) = <<>>

\* json.loads(line): the value, or the JSONDecodeError
json_loads(line) ==
    IF line.valid
    THEN [raised |-> FALSE, value |-> line.value]
    ELSE [raised |-> TRUE, message |-> JSONDecodeErrorMsg(line.text)]

(***************************************************************************)
(* The command interpreter, as subprocess.run sees it.  Whether the child  *)
(* can be started, how long it runs and what it prints are the             *)
(* environment's choice.                                                   *)
(***************************************************************************)
LaunchOutcomes == {"started", "OSError"}

\* the chunk that stands for the byte 0xff, which is not UTF-8
Undecodable == "0xff"

\* what a child that ends in time hands back, as the bytes it wrote to the
\* pipes: a zero and a non-zero exit code, output with newlines, with
\* characters JSON escapes and with a CR LF line end, and output that is not
\* UTF-8
Completions ==
    { [returncode |-> 0, stdout |-> <<"hi", "\n">>, stderr |-> <<>>],
      [returncode |-> 1, stdout |-> <<>>,
       stderr |-> <<"sh: 1: ", "\"", "x", "\\", ": not found", "\r", "\n">>],
      [returncode |-> 0, stdout |-> <<Undecodable, "hi", "\n">>, stderr |-> <<>>] }

\* universal newlines of text=True: "\r\n" and a lone "\r" are read as "\n"
RECURSIVE TranslateNewlines(_, _)
TranslateNewlines(bytes, k) ==
    IF k > Len(bytes)
    THEN <<>>
    ELSE IF bytes[k] = "\r" /\ k < Len(bytes) /\ bytes[k + 1] = "\n"
    THEN TranslateNewlines(bytes, k + 1)
    ELSE <<IF bytes[k] = "\r" THEN "\n" ELSE bytes[k]>>
         \o TranslateNewlines(bytes, k + 1)

\* text=True: the bytes of a pipe are decoded as UTF-8 with universal
\* newlines; bytes that are not UTF-8 raise UnicodeDecodeError (the position
\* in the message is that of a first byte)
TextDecode(bytes) ==
    IF \E k \in 1..Len(bytes) : bytes[k] = Undecodable
    THEN [raised |-> TRUE,
          message |-> <<"'utf-8' codec can't decode byte 0xff in position 0: invalid start byte">>]
    ELSE [raised |-> FALSE, value |-> TranslateNewlines(bytes, 1)]

\* Popen.communicate of a child that ended in time: the CompletedProcess, or
\* the exception of the decoder
communicate(r) ==
    LET out == TextDecode(r.stdout)
        err == TextDecode(r.stderr)
    IN  IF out.raised THEN out
        ELSE IF err.raised THEN err
        ELSE [raised |-> FALSE,
              value |-> [returncode |-> r.returncode,
                         stdout |-> out.value, stderr |-> err.value]]

\* what a child had printed when the timeout struck
Partials == {<<"tick", "\n">>}

\* a Popen that takes a missing command for an empty one
Popen_AcceptsNone(cmd, cwd, launch) ==
    IF launch = "OSError"
    THEN [raised |-> TRUE,
          message |-> <<"[Errno 2] No such file or directory: '" \o cwd \o "'">>]
    ELSE [raised |-> FALSE]

\* Popen(cmd, shell=True, cwd=cwd): what it raises before any child exists
Popen(cmd, cwd, launch) ==
    IF cmd = None
    THEN [raised |-> TRUE, message |-> <<"'NoneType' object is not iterable">>]
    ELSE IF launch = "OSError"
    THEN [raised |-> TRUE,
          message |-> <<"[Errno 2] No such file or directory: '" \o cwd \o "'">>]
    ELSE [raised |-> FALSE]

(***************************************************************************)
(* Shell.run, one pass of the loop body.  The result says what the pass    *)
(* does next: "send" a message, "pass" (nothing), "launch" the child of a  *)
(* tools/call, "launch_failed" (send the text of the exception Popen       *)
(* raised), or "raise" (an exception on its way to the except handler).    *)
(***************************************************************************)
\* a tools/call branch without the try of line 33: what Popen raises goes on
\* to the except handler of the loop
ToolsCall_Propagates(rid, params, rootdir, launch) ==
    IF ~IsDict(params)
    THEN [kind |-> "raise", message |-> AttributeErrorMsg(params)]
    ELSE LET args == Get(params, "arguments", EmptyDict)
         IN  IF ~IsDict(args)
             THEN [kind |-> "raise", message |-> AttributeErrorMsg(args)]
             ELSE LET cmd == Get(args, "command", None)
                      cwd == Get(args, "cwd", rootdir)
                      p   == Popen(cmd, cwd, launch)
                  IN  IF p.raised
                      THEN [kind |-> "raise", message |-> p.message]
                      ELSE [kind |-> "launch", rid |-> rid, cmd |-> cmd, cwd |-> cwd]

ToolsCall(rid, params, rootdir, launch) ==
    IF ~IsDict(params)
    THEN [kind |-> "raise", message |-> AttributeErrorMsg(params)]
    ELSE LET tool == Get(params, "name", None)
             args == Get(params, "arguments", EmptyDict)
         IN  IF ~IsDict(args)
             THEN [kind |-> "raise", message |-> AttributeErrorMsg(args)]
             ELSE LET cmd == Get(args, "command", None)
                      cwd == Get(args, "cwd", rootdir)
                      p   == Popen(cmd, cwd, launch)
                  IN  IF p.raised
                      THEN [kind |-> "launch_failed",
                            msg |-> ToolResultResponse(rid, ExceptionText(p.message))]
                      ELSE [kind |-> "launch", rid |-> rid, cmd |-> cmd, cwd |-> cwd]

\* a routing that keeps a session: tools/list and tools/call are refused
\* until an initialize request has been read
Dispatch_NeedsInitialize(req, rootdir, launch) ==
    IF ~IsDict(req)
    THEN [kind |-> "raise", message |-> AttributeErrorMsg(req)]
    ELSE LET rid    == Get(req, "id", None)
             method == Get(req, "method", None)
             params == Get(req, "params", EmptyDict)
             initialized ==
                \E i \in 1..Len(log) :
                    /\ log[i].line.valid
                    /\ IsDict(log[i].line.value)
                    /\ Get(log[i].line.value, "method", None) = "initialize"
         IN  IF method = "initialize"
             THEN [kind |-> "send", msg |-> InitializeResponse(rid)]
             ELSE IF method \in {"tools/list", "tools/call"} /\ ~initialized
             THEN [kind |-> "send", msg |-> NotFoundResponse(rid)]
             ELSE IF method = "tools/list"
             THEN [kind |-> "send", msg |-> ToolsListResponse(rid)]
             ELSE IF method = "tools/call"
             THEN ToolsCall(rid, params, rootdir, launch)
             ELSE IF rid = None
             THEN [kind |-> "pass"]
             ELSE [kind |-> "send", msg |-> NotFoundResponse(rid)]

\* a routing that compares the method without regard to case
Dispatch_IgnoresCase(req, rootdir, launch) ==
    IF ~IsDict(req)
    THEN [kind |-> "raise", message |-> AttributeErrorMsg(req)]
    ELSE LET rid    == Get(req, "id", None)
             given  == Get(req, "method", None)
             method == IF given = "Initialize" THEN "initialize" ELSE given
             params == Get(req, "params", EmptyDict)
         IN  IF method = "initialize"
             THEN [kind |-> "send", msg |-> InitializeResponse(rid)]
             ELSE IF method = "tools/list"
             THEN [kind |-> "send", msg |-> ToolsListResponse(rid)]
             ELSE IF method = "tools/call"
             THEN ToolsCall(rid, params, rootdir, launch)
             ELSE IF rid = None
             THEN [kind |-> "pass"]
             ELSE [kind |-> "send", msg |-> NotFoundResponse(rid)]

Dispatch(req, rootdir, launch) ==
    IF ~IsDict(req)
    THEN [kind |-> "raise", message |-> AttributeErrorMsg(req)]
    ELSE LET rid    == Get(req, "id", None)
             method == Get(req, "method", None)
             params == Get(req, "params", EmptyDict)
         IN  IF method = "initialize"
             THEN [kind |-> "send", msg |-> InitializeResponse(rid)]
             ELSE IF method = "tools/list"
             THEN [kind |-> "send", msg |-> ToolsListResponse(rid)]
             ELSE IF method = "tools/call"
             THEN ToolsCall(rid, params, rootdir, launch)
             ELSE IF rid = None
             THEN [kind |-> "pass"]
             ELSE [kind |-> "send", msg |-> NotFoundResponse(rid)]

\* an except handler that drops the exception: except Exception: pass
ExceptHandler_Swallows(e) == IF e.kind = "raise" THEN [kind |-> "pass"] ELSE e

\* no except handler: the exception leaves the loop
ExceptHandler_Absent(e) == e

\* the except handler of the loop
ExceptHandler(e) ==
    IF e.kind = "raise"
    THEN [kind |-> "send", msg |-> InternalErrorResponse(e.message)]
    ELSE e

\* the try block of the loop from json.loads on, and its except handler
Handle(line, rootdir, launch) ==
    LET l == json_loads(line)
    IN  ExceptHandler(IF l.raised
                      THEN [kind |-> "raise", message |-> l.message]
                      ELSE Dispatch(l.value, rootdir, launch))

(***************************************************************************)
(* The state machine.                                                      *)
(***************************************************************************)
NoCall == [rid |-> None, cmd |-> None, cwd |-> None]

(***************************************************************************)
(* The MLflow tool server of src/servers_MCP/server_mlflow/server.py.      *)
(* The module body runs three startup steps (load the configuration,       *)
(* construct the client, check is_available) and then serves the thirteen  *)
(* tools through mcp.run().  The client (tools_MLflower.MLFlower) and the   *)
(* configuration (config.cnfg_experiment) are external: every call into    *)
(* them either returns a value or raises, and the model draws that outcome *)
(* from small sets.                                                        *)
(*                                                                          *)
(* Python values.  A str is a TLA+ string, None where a str is expected is *)
(* None, a dict is a function, None where a dict or list is expected is    *)
(* NoneType, a list is List(items), a scalar whose type matters is         *)
(* Str(s) or Float(s).                                                     *)
(***************************************************************************)
MaxCalls == 2       \* tool calls served by one MLflow or GitHub server run

NoneType == [notdict |-> "NoneType"]

List(items) == [notdict |-> "list", items |-> items]

Str(s) == [type |-> "str", value |-> s]

Float(s) == [type |-> "float", value |-> s]

\* a module global that no statement has assigned yet
Unbound == [unbound |-> TRUE]

\* `d or {}'
OrDict(d) == IF IsDict(d) /\ DOMAIN d # {} THEN d ELSE EmptyDict

\* `l or []'
OrList(l) == IF l.notdict = "list" /\ l.items # <<>> THEN l ELSE List(<<>>)

\* len() of a dict
LenDict(d) == Cardinality(DOMAIN d)

\* what a call into the client or the configuration module did
Return(value) == [kind |-> "return", value |-> value]

Raise(e) == [kind |-> "raise", exc |-> e]

\* the exceptions the client raises in the model
ClientErrors ==
    { [type |-> "MlflowException", msg |-> "API request failed"],
      [type |-> "ConnectionError", msg |-> "Connection refused"] }

\* len(None)
TypeError_len == [type |-> "TypeError",
                  msg |-> "object of type 'NoneType' has no len()"]

\* traceback.format_exc() inside an except block
format_exc(e) == <<"Traceback (most recent call last):", "\n", e.type, ": ", e.msg, "\n">>

\* the characters U+2713 and U+2717 that open the tools' log messages
CheckMark == "U+2713"

BallotX == "U+2717"

\* one record of mlflow_server.log (logger.info, .debug, .warning, .error)
LogRecord(level, msg) == [level |-> level, msg |-> msg]

\* logger.error(..., exc_info=True): the message and the traceback
LogError(msg, e) == [level |-> "ERROR", msg |-> msg \o <<"\n">> \o format_exc(e)]

\* the three banner records of lines 38-40
Banner ==
    << LogRecord("INFO", <<"====">>),
       LogRecord("INFO", <<"Starting MLflow MCP Server">>),
       LogRecord("INFO", <<"====">>) >>

\* the state of the process after logging.basicConfig and FastMCP(...)
MLflowInit ==
    /\ mpc = "config"
    /\ cfg = Unbound
    /\ mlflow_client = Unbound
    /\ logfile = Banner
    /\ stdio = <<>>
    /\ exit_code = <<>>
    /\ startup = <<>>
    /\ responses = <<>>

\* the GitHub server before its first tool call
GitHubInit ==
    /\ urlopened = <<>>
    /\ fetched = <<>>

Environs == {EmptyDict, [MCP_ROOT_DIR |-> "/srv/work"]}

\* a constructor that does not look at the environment
ShellInit_IgnoresEnv(env) == "D:/source/digits"

\* Shell.__init__
ShellInit(env) == Get(env, "MCP_ROOT_DIR", "D:/source/digits")

Init ==
    /\ environ \in Environs
    /\ root = ShellInit(environ)
    /\ pc = "read"
    /\ cur = NoCall
    /\ stdout = <<>>
    /\ inflight = 0
    /\ executed = <<>>
    /\ log = <<>>
    /\ stolen = 0
    /\ MLflowInit
    /\ GitHubInit

\* a loop that reads on while a command runs
CanRead_Pipelined == pc \in {"read", "run"}

\* sys.stdin.readline() is reached only between two passes of the loop body
CanRead == pc = "read"

\* the child started without capture_output: it prints on the inherited stream
ChildWrites_Inherited(stream, out) == stream \o out

\* subprocess.run(capture_output=True): what the child prints goes to the
\* pipes, nothing of it reaches the server's own output stream
ChildWrites(stream, out) == stream

\* readline returns a line; the loop body runs up to the send, or up to the
\* point where the child of a tools/call is running
ReadLine(line, launch) ==
    /\ CanRead
    /\ LET e == Handle(line, root, launch)
       IN  IF Breaks(line)
           THEN /\ pc' = "done"
                /\ log' = Append(log, [line |-> line,
                                       outcome |-> [kind |-> "none"],
                                       sent |-> <<>>])
                /\ UNCHANGED <<cur, stdout, inflight, executed>>
           ELSE IF e.kind = "raise"
           THEN \* nothing caught it: the traceback goes to stderr
                /\ pc' = "crashed"
                /\ log' = Append(log, [line |-> line,
                                       outcome |-> [kind |-> "none"],
                                       sent |-> <<>>])
                /\ UNCHANGED <<cur, stdout, inflight, executed>>
           ELSE IF e.kind = "launch"
           THEN /\ pc' = "run"
                /\ cur' = [rid |-> e.rid, cmd |-> e.cmd, cwd |-> e.cwd]
                /\ inflight' = inflight + 1
                /\ executed' = Append(executed, [cmd |-> e.cmd, cwd |-> e.cwd])
                /\ stdout' = stdout
                /\ log' = Append(log, [line |-> line,
                                       outcome |-> [kind |-> "running"],
                                       sent |-> <<>>])
           ELSE /\ pc' = "read"
                /\ stdout' = IF e.kind = "pass" THEN stdout ELSE send(stdout, e.msg)
                /\ log' = Append(log,
                     [line |-> line,
                      outcome |-> [kind |-> IF e.kind = "launch_failed"
                                            THEN "launch_failed" ELSE "none"],
                      sent |-> IF e.kind = "pass" THEN <<>> ELSE <<e.msg>>])
                /\ UNCHANGED <<cur, inflight, executed>>
    /\ UNCHANGED <<mlflow_vars, github_vars, environ, root, stolen>>

\* readline returns '': break
EndOfStream ==
    /\ CanRead
    /\ pc' = "done"
    /\ UNCHANGED <<mlflow_vars, github_vars, environ, root, cur, stdout, inflight, executed, log, stolen>>

\* the last entry of the log gets the outcome and the message of the call
Answer(outcome, msg) ==
    [log EXCEPT ![Len(log)] = [@ EXCEPT !.outcome = outcome, !.sent = <<msg>>]]

\* a runner that runs the command once more when it ended with a non-zero
\* exit code
ProcessExits_Retries(r) ==
    /\ pc = "run"
    /\ IF r.returncode # 0 /\ Len(executed) < 2 * MaxLines
       THEN /\ executed' = Append(executed, [cmd |-> cur.cmd, cwd |-> cur.cwd])
            /\ UNCHANGED <<pc, cur, stdout, inflight, log>>
       ELSE /\ LET text == CompletedText(r.returncode, r.stdout, r.stderr)
                   msg  == ToolResultResponse(cur.rid, text)
               IN  /\ stdout' = send(stdout, msg)
                   /\ log' = Answer([kind |-> "completed", r |-> r], msg)
            /\ inflight' = inflight - 1
            /\ pc' = "read"
            /\ cur' = NoCall
            /\ UNCHANGED executed
    /\ UNCHANGED <<mlflow_vars, github_vars, environ, root, stolen>>

\* the child ended within the timeout: subprocess.run returns, or raises
\* what communicate raised, which the except Exception of line 38 catches
ProcessExits(r) ==
    /\ pc = "run"
    /\ LET c    == communicate(r)
           text == IF c.raised
                   THEN ExceptionText(c.message)
                   ELSE CompletedText(c.value.returncode, c.value.stdout,
                                      c.value.stderr)
           msg  == ToolResultResponse(cur.rid, text)
       IN  /\ stdout' = send(ChildWrites(stdout, r.stdout \o r.stderr), msg)
           /\ log' = Answer([kind |-> "completed", r |-> r], msg)
    /\ inflight' = inflight - 1
    /\ pc' = "read"
    /\ cur' = NoCall
    /\ UNCHANGED <<mlflow_vars, github_vars, environ, root, executed, stolen>>

\* subprocess.run kills the child and raises subprocess.TimeoutExpired
TimeoutExpired(partial) ==
    /\ pc = "run"
    /\ LET exc == [timeout |-> 300, stdout |-> partial]
           msg == ToolResultResponse(cur.rid, TimeoutText(exc))
       IN  /\ stdout' = send(stdout, msg)
           /\ log' = Answer([kind |-> "timeout", partial |-> partial], msg)
    /\ inflight' = inflight - 1
    /\ pc' = "read"
    /\ cur' = NoCall
    /\ UNCHANGED <<mlflow_vars, github_vars, environ, root, executed, stolen>>

\* the timeout strikes and the shell is killed, but a child of the shell
\* lives on with the pipes open: where subprocess.run goes on to read the
\* pipes to their end (communicate() after kill(), as on Windows, the
\* platform of the default root of line 6), it does not come back yet
KillLeavesPipesOpen ==
    /\ pc = "run"
    /\ pc' = "reap"
    /\ UNCHANGED <<mlflow_vars, github_vars, environ, root, cur, stdout, inflight, executed, log, stolen>>

\* the last holder of the pipes ends: subprocess.run raises TimeoutExpired
PipesClosed(partial) ==
    /\ pc = "reap"
    /\ LET exc == [timeout |-> 300, stdout |-> partial]
           msg == ToolResultResponse(cur.rid, TimeoutText(exc))
       IN  /\ stdout' = send(stdout, msg)
           /\ log' = Answer([kind |-> "timeout", partial |-> partial], msg)
    /\ inflight' = inflight - 1
    /\ pc' = "read"
    /\ cur' = NoCall
    /\ UNCHANGED <<mlflow_vars, github_vars, environ, root, executed, stolen>>

\* subprocess.run is called without stdin=: the child has the input stream
\* of the server
ChildStdin == "inherited"

\* the peer writes a line while the command runs, and the command, which
\* reads its standard input, takes it
ChildReadsLine ==
    /\ pc = "run"
    /\ ChildStdin = "inherited"
    /\ stolen' = stolen + 1
    /\ UNCHANGED <<mlflow_vars, github_vars, environ, root, pc, cur, stdout, inflight, executed, log>>

\* the peer writes one more line
Read ==
    /\ Len(log) + stolen < MaxLines
    /\ \E line \in Lines, launch \in LaunchOutcomes : ReadLine(line, launch)

\* the peer writes one more line, which the running command takes
Steal ==
    /\ Len(log) + stolen < MaxLines
    /\ ChildReadsLine

Next ==
    \/ Read
    \/ Steal
    \/ EndOfStream
    \/ \E r \in Completions : ProcessExits(r)
    \/ \E partial \in Partials : TimeoutExpired(partial)
    \/ KillLeavesPipesOpen
    \/ \E partial \in Partials : PipesClosed(partial)

Spec == Init /\ [][Next]_vars

(***************************************************************************)
(* Longer sessions over a few lines: one of each kind.                     *)
(***************************************************************************)
LongLines ==
    { [valid |-> FALSE, text |-> "{bad"],
      [valid |-> FALSE, text |-> ""],
      [valid |-> TRUE, value |-> [jsonrpc |-> "2.0", id |-> "1", method |-> "initialize"]],
      [valid |-> TRUE, value |-> [jsonrpc |-> "2.0", id |-> "2", method |-> "tools/list"]],
      [valid |-> TRUE, value |-> [jsonrpc |-> "2.0", id |-> "1", method |-> "ping"]],
      [valid |-> TRUE,
       value |-> [jsonrpc |-> "2.0", id |-> "2", method |-> "tools/call",
                  params |-> [name |-> "execute_command",
                              arguments |-> [command |-> "echo hi"]]]] }

ReadLong ==
    /\ Len(log) + stolen < MaxLongLines
    /\ \E line \in LongLines, launch \in LaunchOutcomes : ReadLine(line, launch)

StealLong ==
    /\ Len(log) + stolen < MaxLongLines
    /\ ChildReadsLine

NextLong ==
    \/ ReadLong
    \/ StealLong
    \/ EndOfStream
    \/ \E r \in Completions : ProcessExits(r)
    \/ \E partial \in Partials : TimeoutExpired(partial)
    \/ KillLeavesPipesOpen
    \/ \E partial \in Partials : PipesClosed(partial)

SpecLong == Init /\ [][NextLong]_vars

\* the peer closes the stream after its last line, and a child that does not
\* end is killed when the timeout of 300 seconds strikes
SpecLongLive ==
    /\ Init /\ [][NextLong]_vars
    /\ WF_vars(EndOfStream)
    /\ WF_vars(\E partial \in Partials : TimeoutExpired(partial))

(***************************************************************************)
(* What the histories say.                                                 *)
(***************************************************************************)
\* the messages handed to send, in the order of the lines that caused them
AllSent == Flatten([i \in 1..Len(log) |-> log[i].sent])

\* the output stream as the peer reads it: the text before each newline
\* (the lines of stream from position k on, the current line starting at from)
RECURSIVE SplitLines(_, _, _)
SplitLines(stream, from, k) ==
    IF k > Len(stream)
    THEN (IF from > Len(stream) THEN <<>> ELSE <<SubSeq(stream, from, Len(stream))>>)
    ELSE IF stream[k] = "\n"
    THEN <<SubSeq(stream, from, k - 1)>> \o SplitLines(stream, k + 1, k + 1)
    ELSE SplitLines(stream, from, k + 1)

PeerLines == SplitLines(stdout, 1, 1)

RECURSIVE Join(_)
Join(chunks) == IF chunks = <<>> THEN "" ELSE Head(chunks) \o Join(Tail(chunks))

HasNewline(chunks) == LET c == chunks IN \E k \in 1..Len(c) : c[k] = "\n"

IsRequest(line) == line.valid /\ IsDict(line.value)

\* the line is a request that carries an id
CarriesId(line) == IsRequest(line) /\ Get(line.value, "id", None) # None

\* the line is a JSON object without an id
IsNotification(line) == IsRequest(line) /\ Get(line.value, "id", None) = None

MethodOf(line) == Get(line.value, "method", None)

IsResult(m) == "result" \in DOMAIN m /\ "error" \notin DOMAIN m

IsError(m) == "error" \in DOMAIN m /\ "result" \notin DOMAIN m

IsToolResult(m) == IsResult(m) /\ "type" \in DOMAIN m.result

\* the text of a tools/call result, as one string
ToolText(m) == Join(m.result.content[1].text)

Ran(entry) == entry.outcome.kind \in {"running", "completed", "timeout"}

\* the line has been handled to the end
Handled(i) == i < Len(log) \/ pc \in {"read", "done"}

(***************************************************************************)
(* C1: every line on the output stream is exactly one envelope.  The       *)
(* stream starts empty, and every step that writes to it appends the JSON  *)
(* text of exactly one message handed to send, without a raw newline in    *)
(* it, followed by one newline; no step writes anything else, whatever the *)
(* input line was and whatever the command printed.                        *)
(***************************************************************************)
C1_Step ==
    IF stdout' = stdout
    THEN AllSent' = AllSent
    ELSE LET m == AllSent'[Len(AllSent')]
         IN  /\ AllSent' = Append(AllSent, m)
             /\ ~HasNewline(json_dumps(m))
             /\ stdout' = stdout \o json_dumps(m) \o <<"\n">>

C1_OneEnvelopePerLine == (stdout = <<>> /\ AllSent = <<>>) /\ [][C1_Step]_vars

C1_Witness ==
    /\ Len(PeerLines) = 2
    /\ \E i \in 1..Len(log) :
          /\ log[i].outcome.kind = "completed"
          /\ HasNewline(log[i].outcome.r.stdout)
          /\ HasNewline(log[i].sent[1].result.content[1].text)

(***************************************************************************)
(* C2: a request that carries an id has exactly one response once its line *)
(* has been handled, which is before any later line is read; the response  *)
(* is a result or an error object with code and message; no line of any    *)
(* kind causes more than one message, and the output stream holds exactly  *)
(* the messages of the lines read so far.                                  *)
(***************************************************************************)
WellFormed(m) ==
    \/ IsResult(m)
    \/ IsError(m) /\ DOMAIN m.error = {"code", "message"}

C2_OneResponsePerRequest ==
    /\ pc # "crashed"
    /\ \A i \in 1..Len(log) :
          /\ Len(log[i].sent) <= 1
          /\ (CarriesId(log[i].line) /\ Handled(i)) =>
                (Len(log[i].sent) = 1 /\ WellFormed(log[i].sent[1]))
          /\ (i < Len(log)) => log[i].outcome.kind # "running"
    /\ Cardinality({k \in 1..Len(stdout) : stdout[k] = "\n"}) = Len(AllSent)

\* a failed request with an id was answered, and a later request too
C2_Witness ==
    /\ Len(log) = 2
    /\ CarriesId(log[1].line) /\ IsError(log[1].sent[1])
    /\ CarriesId(log[2].line) /\ log[2].outcome.kind = "timeout"
    /\ Len(PeerLines) = 2

(***************************************************************************)
(* C3: a JSON object without an id, whatever its method, causes no message *)
(* on the output stream.                                                   *)
(***************************************************************************)
C3_NotificationsUnanswered ==
    \A i \in 1..Len(log) :
        (IsNotification(log[i].line) /\ Handled(i)) => log[i].sent = <<>>

(***************************************************************************)
(* C4: every response to a request that carried an id has an id field      *)
(* equal to the id of the request, also when the response is the error     *)
(* envelope of a request whose handling failed.                            *)
(***************************************************************************)
C4_ResponseEchoesId ==
    \A i \in 1..Len(log) :
        CarriesId(log[i].line) =>
            \A k \in 1..Len(log[i].sent) :
                /\ "id" \in DOMAIN log[i].sent[k]
                /\ log[i].sent[k].id = log[i].line.value.id

(***************************************************************************)
(* C5: every message sent contains exactly one of result and error, and an *)
(* error object carries an integer code and a string message.              *)
(***************************************************************************)
C5_ResultXorError ==
    \A i \in 1..Len(log) : \A k \in 1..Len(log[i].sent) :
        LET m == log[i].sent[k]
        IN  /\ ("result" \in DOMAIN m) # ("error" \in DOMAIN m)
            /\ "error" \in DOMAIN m =>
                  /\ DOMAIN m.error = {"code", "message"}
                  /\ m.error.code \in Int
                  /\ m.error.message \in Seq(STRING)

\* a session with a result envelope and an error envelope
C5_Witness ==
    /\ Len(AllSent) = 2
    /\ IsError(AllSent[1]) /\ AllSent[1].error.code = -32603
    /\ IsResult(AllSent[2])

(***************************************************************************)
(* C6: fault isolation.  A line that is not JSON yields exactly one error  *)
(* envelope with code -32603 and does not end the loop; a line after it is *)
(* answered as the same line (with the same command outcome) was answered  *)
(* before any malformed line; a tools/list request after it gets the       *)
(* registered tool under its own id.                                       *)
(***************************************************************************)
NoMalformedBefore(k) == \A h \in 1..(k - 1) : log[h].line.valid

CorrectToolsList(line, sent) ==
    /\ Len(sent) = 1
    /\ IsResult(sent[1])
    /\ sent[1].id = line.value.id
    /\ DOMAIN sent[1].result = {"tools"}
    /\ Len(sent[1].result.tools) = 1
    /\ sent[1].result.tools[1].name = "execute_command"
    /\ sent[1].result.tools[1].inputSchema.required = <<"command">>

C6_FaultIsolation ==
    /\ pc # "crashed"
    /\ \A i \in 1..Len(log) :
          ~log[i].line.valid =>
             /\ Len(log[i].sent) = 1
             /\ IsError(log[i].sent[1])
             /\ log[i].sent[1].error.code = -32603
             /\ \A j \in (i + 1)..Len(log) :
                   /\ \A k \in 1..(i - 1) :
                         ( /\ NoMalformedBefore(k)
                           /\ log[k].line = log[j].line
                           /\ log[k].outcome = log[j].outcome )
                         => log[k].sent = log[j].sent
                   /\ ( /\ CarriesId(log[j].line)
                        /\ MethodOf(log[j].line) = "tools/list" )
                      => CorrectToolsList(log[j].line, log[j].sent)

\* the same tools/list request before and after a malformed line
C6_Witness ==
    /\ Len(log) = 3
    /\ ~log[2].line.valid
    /\ log[1].line = log[3].line
    /\ CarriesId(log[3].line)
    /\ MethodOf(log[3].line) = "tools/list"
    /\ Len(log[3].sent) = 1

(***************************************************************************)
(* C7: one request at a time.  A line is read only when every earlier line *)
(* has been handled to the end, at most one command is in flight, and the  *)
(* k-th line of the output stream is the response of the k-th answered     *)
(* line of the input stream.                                               *)
(***************************************************************************)
C7_State ==
    /\ inflight \in {0, 1}
    /\ (pc \in {"run", "reap"}) <=> (inflight = 1)
    /\ \A i \in 1..Len(log) :
          log[i].outcome.kind = "running" =>
             (i = Len(log) /\ pc \in {"run", "reap"} /\ log[i].sent = <<>>)
    /\ pc \in {"run", "reap"} =>
          (Len(log) > 0 /\ log[Len(log)].outcome.kind = "running")
    /\ Len(executed) = Cardinality({i \in 1..Len(log) : Ran(log[i])})

\* a step leaves the lines before the last one read as they are, and what it
\* writes is the response of the last line read, put at the end of the stream
C7_Step ==
    /\ Len(log') >= Len(log)
    /\ \A i \in 1..Len(log) : i < Len(log') => log'[i] = log[i]
    /\ Len(log') > Len(log) => pc = "read"
    /\ stdout' # stdout =>
          /\ Len(log'[Len(log')].sent) = 1
          /\ stdout' = stdout \o json_dumps(log'[Len(log')].sent[1]) \o <<"\n">>

C7_OneAtATime == []C7_State /\ [][C7_Step]_vars

\* a second command is running after the first was answered
C7_Witness ==
    /\ Len(log) = 2
    /\ CarriesId(log[1].line) /\ CarriesId(log[2].line)
    /\ log[1].outcome.kind = "completed"
    /\ Len(PeerLines) = 1
    /\ pc = "run"
    /\ log[1].line.value.id # log[2].line.value.id

(***************************************************************************)
(* C8: a tools/call whose params.name is not execute_command gets an error *)
(* that tells of the unknown tool, and no command is executed for it.      *)
(***************************************************************************)
UnknownTool(line) ==
    /\ IsRequest(line)
    /\ MethodOf(line) = "tools/call"
    /\ "params" \in DOMAIN line.value
    /\ IsDict(line.value.params)
    /\ "name" \in DOMAIN line.value.params
    /\ line.value.params.name # "execute_command"

C8_UnknownToolRejected ==
    \A i \in 1..Len(log) :
        UnknownTool(log[i].line) =>
            /\ ~Ran(log[i])
            /\ Len(log[i].sent) = 1
            /\ ~(IsToolResult(log[i].sent[1])
                 /\ Head(log[i].sent[1].result.content[1].text) = "Exit Code: ")

(***************************************************************************)
(* C9: a tools/call whose arguments have no command is answered with an    *)
(* error report (an error envelope, or a tool result whose text is an      *)
(* error text and shows no exit code); the loop goes on and no command is  *)
(* executed for it.                                                        *)
(***************************************************************************)
OmitsCommand(line) ==
    /\ IsRequest(line)
    /\ MethodOf(line) = "tools/call"
    /\ IsDict(Get(line.value, "params", EmptyDict))
    /\ IsDict(Get(Get(line.value, "params", EmptyDict), "arguments", EmptyDict))
    /\ "command" \notin
          DOMAIN Get(Get(line.value, "params", EmptyDict), "arguments", EmptyDict)

IsErrorReport(m) ==
    \/ IsError(m)
    \/ /\ IsToolResult(m)
       /\ Len(m.result.content) = 1
       /\ m.result.content[1].text # <<>>
       /\ Head(m.result.content[1].text) = "Error: "
       /\ \A k \in 1..Len(m.result.content[1].text) :
             m.result.content[1].text[k] # "Exit Code: "

C9_MissingCommandIsError ==
    /\ pc # "crashed"
    /\ Len(executed) = Cardinality({i \in 1..Len(log) : Ran(log[i])})
    /\ \A i \in 1..Len(log) :
          OmitsCommand(log[i].line) =>
             /\ ~Ran(log[i])
             /\ Len(log[i].sent) = 1
             /\ IsErrorReport(log[i].sent[1])

\* arguments with a cwd and no command, answered, and nothing was executed
C9_Witness ==
    /\ Len(log) = 2
    /\ OmitsCommand(log[1].line)
    /\ "params" \in DOMAIN log[1].line.value
    /\ "cwd" \in DOMAIN log[1].line.value.params.arguments
    /\ Len(log[1].sent) = 1
    /\ executed = <<>>
    /\ OmitsCommand(log[2].line)

(***************************************************************************)
(* C10, as claimed: the result text of a timed-out tools/call is exactly   *)
(* "Command timeout (5 minutes)".                                          *)
(***************************************************************************)
C10_TimeoutTextIsBareMessage ==
    \A i \in 1..Len(log) :
        log[i].outcome.kind = "timeout" =>
            ToolText(log[i].sent[1]) = "Command timeout (5 minutes)"

(***************************************************************************)
(* C10, amended: the result text of a timed-out tools/call is exactly      *)
(* "Error: Command timeout (5 minutes)", whatever the child had printed,   *)
(* so it holds no partial output and no exit code; the loop is back at     *)
(* reading, and a request with an id on the next line is answered.         *)
(***************************************************************************)
C10_TimeoutTextWithPrefix ==
    /\ pc # "crashed"
    /\ \A i \in 1..Len(log) :
          log[i].outcome.kind = "timeout" =>
             /\ Len(log[i].sent) = 1
             /\ IsToolResult(log[i].sent[1])
             /\ Len(log[i].sent[1].result.content) = 1
             /\ ToolText(log[i].sent[1]) = "Error: Command timeout (5 minutes)"
             /\ i = Len(log) => pc \in {"read", "done"}
             /\ (i < Len(log) /\ CarriesId(log[i + 1].line) /\ Handled(i + 1))
                   => Len(log[i + 1].sent) = 1

\* a command that had printed something timed out, and the next request
\* was answered
C10_Witness ==
    /\ Len(log) = 2
    /\ log[1].outcome.kind = "timeout"
    /\ log[1].outcome.partial # <<>>
    /\ CarriesId(log[2].line)
    /\ MethodOf(log[2].line) = "tools/list"
    /\ Len(log[2].sent) = 1

(***************************************************************************)
(* C11: the response of a tools/call whose command could not be launched   *)
(* or was killed at the timeout is an error envelope, not a result of type *)
(* tool_result, while the response of a command that ended with a non-zero *)
(* exit code is a result of type tool_result.                              *)
(***************************************************************************)
FailedOrTimedOut(entry) ==
    \/ entry.outcome.kind = "timeout"
    \/ entry.outcome.kind = "launch_failed" /\ ~OmitsCommand(entry.line)

C11_ExecutionErrorsAreErrorEnvelopes ==
    \A i \in 1..Len(log) :
        /\ FailedOrTimedOut(log[i]) =>
              /\ Len(log[i].sent) = 1
              /\ IsError(log[i].sent[1])
        /\ (log[i].outcome.kind = "completed" /\ log[i].outcome.r.returncode # 0) =>
              /\ Len(log[i].sent) = 1
              /\ IsToolResult(log[i].sent[1])

(***************************************************************************)
(* C12: the response of a tools/call whose command ended with exit code n  *)
(* after writing out and err is a result of type tool_result with one text *)
(* "Exit Code: n\n\nSTDOUT:\nout\n\nSTDERR:\nerr", out and err being what   *)
(* the command wrote, whole and unchanged.                                 *)
(***************************************************************************)
C12_CompletedTextIsVerbatim ==
    \A i \in 1..Len(log) :
        log[i].outcome.kind = "completed" =>
            LET r == log[i].outcome.r
            IN  /\ Len(log[i].sent) = 1
                /\ IsResult(log[i].sent[1])
                /\ log[i].sent[1].result =
                      [type |-> "tool_result",
                       content |-> << [type |-> "text",
                                       text |-> CompletedText(r.returncode,
                                                    r.stdout, r.stderr)] >>]

(***************************************************************************)
(* C13: a tools/call whose command could not be launched is answered, under *)
(* the id of the call, with one tool result whose text is "Error: " and the *)
(* text of the error the launch raised; no command ran for it, the loop is  *)
(* back at reading, and the request on the next line is answered (a         *)
(* tools/list request with the registered tool).                           *)
(***************************************************************************)
HasCommand(line) ==
    /\ IsRequest(line)
    /\ MethodOf(line) = "tools/call"
    /\ IsDict(Get(line.value, "params", EmptyDict))
    /\ IsDict(Get(Get(line.value, "params", EmptyDict), "arguments", EmptyDict))
    /\ "command" \in
          DOMAIN Get(Get(line.value, "params", EmptyDict), "arguments", EmptyDict)

\* the line is a call with a command, and no child was started for it
LaunchFailed(entry) == HasCommand(entry.line) /\ ~Ran(entry)

\* the directory the call of the line asks for
CwdOf(line) == Get(line.value.params.arguments, "cwd", root)

C13_LaunchFailureIsReported ==
    /\ pc # "crashed"
    /\ \A i \in 1..Len(log) :
          LaunchFailed(log[i]) =>
             /\ Handled(i)
             /\ Len(log[i].sent) = 1
             /\ IsToolResult(log[i].sent[1])
             /\ log[i].sent[1].id = Get(log[i].line.value, "id", None)
             /\ log[i].sent[1].result.content[1].text =
                   <<"Error: ",
                     "[Errno 2] No such file or directory: '"
                        \o CwdOf(log[i].line) \o "'">>
             /\ (i < Len(log) /\ CarriesId(log[i + 1].line) /\ Handled(i + 1))
                   => Len(log[i + 1].sent) = 1
             /\ ( /\ i < Len(log)
                  /\ CarriesId(log[i + 1].line)
                  /\ MethodOf(log[i + 1].line) = "tools/list" )
                => CorrectToolsList(log[i + 1].line, log[i + 1].sent)

\* a launch failed in the directory the call named, and the tools/list
\* request after it was answered
C13_Witness ==
    /\ Len(log) = 2
    /\ LaunchFailed(log[1])
    /\ CarriesId(log[1].line)
    /\ "cwd" \in DOMAIN log[1].line.value.params.arguments
    /\ executed = <<>>
    /\ CarriesId(log[2].line)
    /\ MethodOf(log[2].line) = "tools/list"
    /\ Len(log[2].sent) = 1

(***************************************************************************)
(* C14: a request that carries an id and whose method is none of           *)
(* initialize, tools/list and tools/call, compared as they are written, or *)
(* that has no method, is answered with one error envelope under its id    *)
(* with code -32601 and message "Not found"; no command is executed for it.*)
(***************************************************************************)
KnownMethods == {"initialize", "tools/list", "tools/call"}

UnknownMethod(line) == CarriesId(line) /\ MethodOf(line) \notin KnownMethods

C14_UnknownMethodNotFound ==
    /\ Len(executed) = Cardinality({i \in 1..Len(log) : Ran(log[i])})
    /\ \A i \in 1..Len(log) :
          UnknownMethod(log[i].line) =>
             /\ ~Ran(log[i])
             /\ log[i].sent =
                   << [jsonrpc |-> "2.0", id |-> log[i].line.value.id,
                       error |-> [code |-> -32601, message |-> <<"Not found">>]] >>

\* a method that differs from a known one in case only, and a request
\* without a method
C14_Witness ==
    /\ Len(log) = 2
    /\ UnknownMethod(log[1].line) /\ MethodOf(log[1].line) = "Initialize"
    /\ UnknownMethod(log[2].line) /\ MethodOf(log[2].line) = None
    /\ Len(PeerLines) = 2

(***************************************************************************)
(* C15: the loop stops at the end of the input stream and only there.  No  *)
(* exception leaves the loop; the step that ends the loop reads no line    *)
(* and writes nothing; once the loop has ended nothing is read or written; *)
(* and once the peer has no more lines, the loop does end, unless it stays *)
(* blocked in the runner for ever.                                         *)
(***************************************************************************)
C15_Step ==
    /\ pc' = "done" => (pc \in {"read", "done"} /\ log' = log /\ stdout' = stdout)
    /\ pc = "done" => (pc' = "done" /\ log' = log /\ stdout' = stdout)

C15_StopsOnlyAtEndOfStream ==
    /\ [](pc # "crashed")
    /\ [][C15_Step]_vars
    /\ (<>(pc = "done") \/ <>[](pc = "reap"))

\* a blank line, a malformed line and a command that timed out were read,
\* and then the loop ended
C15_Witness ==
    /\ pc = "done"
    /\ Len(log) = 3
    /\ log[1].line = [valid |-> FALSE, text |-> ""]
    /\ ~log[2].line.valid
    /\ log[3].outcome.kind = "timeout"
    /\ Len(PeerLines) = 3

(***************************************************************************)
(* C16: an initialize request that carries an id is answered with one      *)
(* result under that id whose capabilities have a tools member; it starts  *)
(* no command and leaves the configured root as it was; and all the        *)
(* initialize requests of a session, wherever they stand among the other  *)
(* lines, get the same result content.                                     *)
(***************************************************************************)
IsInitialize(line) == CarriesId(line) /\ MethodOf(line) = "initialize"

C16_InitializeIdempotent ==
    /\ root = ShellInit(environ)
    /\ Len(executed) = Cardinality({i \in 1..Len(log) : Ran(log[i])})
    /\ \A i \in 1..Len(log) :
          IsInitialize(log[i].line) =>
             /\ ~Ran(log[i])
             /\ Len(log[i].sent) = 1
             /\ IsResult(log[i].sent[1])
             /\ log[i].sent[1].id = log[i].line.value.id
             /\ "capabilities" \in DOMAIN log[i].sent[1].result
             /\ "tools" \in DOMAIN log[i].sent[1].result.capabilities
             /\ \A j \in 1..Len(log) :
                   IsInitialize(log[j].line) =>
                      log[j].sent[1].result = log[i].sent[1].result

\* a second initialize, under another id, after a first one
C16_Witness ==
    /\ Len(log) = 2
    /\ IsInitialize(log[1].line)
    /\ IsInitialize(log[2].line)
    /\ log[1].line.value.id # log[2].line.value.id
    /\ Len(PeerLines) = 2

(***************************************************************************)
(* C17: a tools/list request is answered with a tools array that holds the *)
(* one registered descriptor, execute_command, whose schema has the        *)
(* properties command and cwd and requires command only; and all the       *)
(* tools/list requests of a session get the same result, whatever lines,   *)
(* commands included, were handled in between.                             *)
(***************************************************************************)
IsToolsList(line) == CarriesId(line) /\ MethodOf(line) = "tools/list"

C17_ToolsListIsStatic ==
    \A i \in 1..Len(log) :
        IsToolsList(log[i].line) =>
           /\ CorrectToolsList(log[i].line, log[i].sent)
           /\ DOMAIN log[i].sent[1].result.tools[1].inputSchema.properties
                 = {"command", "cwd"}
           /\ \A j \in 1..Len(log) :
                 IsToolsList(log[j].line) =>
                    log[j].sent[1].result = log[i].sent[1].result

\* tools/list before and after a command that ran to its end
C17_Witness ==
    /\ Len(log) = 3
    /\ IsToolsList(log[1].line)
    /\ log[2].outcome.kind = "completed"
    /\ IsToolsList(log[3].line)
    /\ Len(log[3].sent) = 1

(***************************************************************************)
(* C18: a tools/call causes at most one execution of its command, also     *)
(* when the command ends with a non-zero exit code, cannot be launched or  *)
(* times out; a line of any other method causes none.  The commands handed *)
(* to the interpreter are as many as the lines for which a child was       *)
(* started, each of them a tools/call, and each is the command of such a   *)
(* line.                                                                   *)
(***************************************************************************)
CommandOf(line) == line.value.params.arguments.command

C18_AtMostOneExecution ==
    /\ Len(executed) = Cardinality({i \in 1..Len(log) : Ran(log[i])})
    /\ \A i \in 1..Len(log) :
          /\ Ran(log[i]) => HasCommand(log[i].line)
          /\ (log[i].outcome.kind = "launch_failed") => ~Ran(log[i])
    /\ \A k \in 1..Len(executed) :
          \E i \in 1..Len(log) :
             Ran(log[i]) /\ CommandOf(log[i].line) = executed[k].cmd

\* a command that ended with a non-zero exit code, then one that timed
\* out: two executions
C18_Witness ==
    /\ Len(log) = 2
    /\ CarriesId(log[1].line) /\ CarriesId(log[2].line)
    /\ log[1].outcome.kind = "completed"
    /\ log[1].outcome.r.returncode # 0
    /\ log[2].outcome.kind = "timeout"
    /\ Len(executed) = 2

(***************************************************************************)
(* C19: the configured root is the value of MCP_ROOT_DIR in the            *)
(* environment the server was started in, or "D:/source/digits" when the   *)
(* variable is absent, in every state, whatever lines were read; and the   *)
(* command of a tools/call is started in the cwd of its arguments when     *)
(* there is one, and in the configured root when there is none.            *)
(***************************************************************************)
\* how many of the first i lines had a child started
RanUpTo(i) == Cardinality({j \in 1..i : Ran(log[j])})

C19_WorkingDirectory ==
    /\ root = (IF "MCP_ROOT_DIR" \in DOMAIN environ
               THEN environ.MCP_ROOT_DIR ELSE "D:/source/digits")
    /\ Len(executed) = RanUpTo(Len(log))
    /\ \A i \in 1..Len(log) :
          Ran(log[i]) =>
             LET args == log[i].line.value.params.arguments
             IN  executed[RanUpTo(i)].cwd =
                    (IF "cwd" \in DOMAIN args THEN args.cwd ELSE root)

\* with MCP_ROOT_DIR set: a command without cwd, then one with a cwd
C19_Witness ==
    /\ "MCP_ROOT_DIR" \in DOMAIN environ
    /\ Len(executed) = 2
    /\ executed[1].cwd = environ.MCP_ROOT_DIR
    /\ executed[2].cwd = "/tmp"
    /\ pc = "read"

(***************************************************************************)
(* C20: a line that is valid JSON but whose value, or whose params or      *)
(* arguments in a tools/call, is not an object is answered with exactly    *)
(* one error envelope with code -32603 whose message is the text of the    *)
(* exception raised ("'<type>' object has no attribute 'get'"); no command *)
(* runs for it, no exception leaves the loop, and a request with an id on  *)
(* the next line is answered.                                              *)
(***************************************************************************)
\* the Python type of the value the handling of the line trips over, or None
TripsOver(line) ==
    IF ~line.valid THEN None
    ELSE IF ~IsDict(line.value) THEN line.value.notdict
    ELSE IF MethodOf(line) # "tools/call" THEN None
    ELSE LET params == Get(line.value, "params", EmptyDict)
         IN  IF ~IsDict(params) THEN params.notdict
             ELSE LET args == Get(params, "arguments", EmptyDict)
                  IN  IF ~IsDict(args) THEN args.notdict ELSE None

C20_InternalErrorEnvelope ==
    /\ pc # "crashed"
    /\ \A i \in 1..Len(log) :
          TripsOver(log[i].line) # None =>
             /\ ~Ran(log[i])
             /\ Len(log[i].sent) = 1
             /\ IsError(log[i].sent[1])
             /\ log[i].sent[1].error.code = -32603
             /\ Join(log[i].sent[1].error.message) =
                   "'" \o TripsOver(log[i].line) \o "' object has no attribute 'get'"
             /\ (i < Len(log) /\ CarriesId(log[i + 1].line) /\ Handled(i + 1))
                   => Len(log[i + 1].sent) = 1

\* a top-level list, then a tools/call whose arguments are null
C20_Witness ==
    /\ Len(log) = 2
    /\ TripsOver(log[1].line) = "list" /\ ~IsDict(log[1].line.value)
    /\ TripsOver(log[2].line) = "NoneType" /\ CarriesId(log[2].line)
    /\ Len(PeerLines) = 2

(***************************************************************************)
(* C21: whenever the loop is blocked in the runner for a tools/call that   *)
(* carries an id, it comes back to reading the next line, the response of  *)
(* the call written, whatever the command and its children do.             *)
(***************************************************************************)
C21_CallEventuallyAnswered ==
    (pc \in {"run", "reap"} /\ cur.rid # None) ~> (pc = "read")

(***************************************************************************)
(* C22: every line that arrives on the input stream is consumed by the     *)
(* loop: no command executed for a tools/call takes a line of it.          *)
(***************************************************************************)
C22_LoopConsumesEveryLine == stolen = 0

(***************************************************************************)
(* C23: no session state.  Two lines of a session that are the same line   *)
(* and, for a tools/call, had the same outcome of the command, caused the  *)
(* same messages, whatever was read before each of them; and a tools/list  *)
(* request is answered with the registered tool, and the command of a      *)
(* tools/call is executed, when no initialize request was read before.     *)
(***************************************************************************)
NoInitializeBefore(i) ==
    \A h \in 1..(i - 1) :
        ~(IsRequest(log[h].line) /\ MethodOf(log[h].line) = "initialize")

C23_NoSessionState ==
    \A i \in 1..Len(log) :
        /\ \A j \in 1..Len(log) :
              (log[i].line = log[j].line /\ log[i].outcome = log[j].outcome)
                 => log[i].sent = log[j].sent
        /\ (NoInitializeBefore(i) /\ IsToolsList(log[i].line))
              => CorrectToolsList(log[i].line, log[i].sent)
        /\ (NoInitializeBefore(i) /\ HasCommand(log[i].line))
              => (Ran(log[i]) \/ log[i].outcome.kind = "launch_failed")
        /\ (NoInitializeBefore(i) /\ log[i].outcome.kind = "completed")
              => IsToolResult(log[i].sent[1])

\* the same tools/call, with the same outcome, as the first line of a
\* session and again after an initialize
C23_Witness ==
    /\ Len(log) = 3
    /\ HasCommand(log[1].line)
    /\ log[1].outcome.kind = "completed"
    /\ IsRequest(log[2].line) /\ MethodOf(log[2].line) = "initialize"
    /\ log[3].line = log[1].line
    /\ log[3].outcome = log[1].outcome
    /\ Len(executed) = 2

(***************************************************************************)
(* The MLflow server: startup (server.py lines 45-75 and 654-670).         *)
(***************************************************************************)
\* what config_module.cnfg_experiment() does: a configuration, a
\* configuration without host_mlflow, or an exception
ConfigOutcomes ==
    { Return([host_mlflow |-> "localhost", port_mlflow |-> "5000"]),
      Return([port_mlflow |-> "5000"]),
      Raise([type |-> "FileNotFoundError", msg |-> "config.yaml"]) }

\* what tools_MLflower.MLFlower(...) does
ClientOutcomes ==
    { Return([is_available |-> TRUE]),
      Return([is_available |-> FALSE]),
      Raise([type |-> "ConnectionError", msg |-> "Connection refused"]) }

\* cfg.host_mlflow on a configuration that has none
AttributeError_host ==
    [type |-> "AttributeError", msg |-> "object has no attribute 'host_mlflow'"]

\* one entry of the startup history
Step(name, ok) == [step |-> name, ok |-> ok]

\* exit(code): SystemExit ends the process
exit(code) ==
    /\ mpc' = "exited"
    /\ exit_code' = <<code>>

\* lines 45-51
LoadConfiguration(outcome) ==
    /\ mpc = "config"
    /\ startup' = Append(startup, Step("config", outcome.kind = "return"))
    /\ IF outcome.kind = "return" /\ "host_mlflow" \in DOMAIN outcome.value
       THEN /\ cfg' = outcome.value
            /\ logfile' = Append(logfile, LogRecord("INFO",
                   <<"Configuration loaded: host=", outcome.value.host_mlflow,
                     ", port=", outcome.value.port_mlflow>>))
            /\ mpc' = "client"
            /\ UNCHANGED exit_code
       ELSE LET e == IF outcome.kind = "raise" THEN outcome.exc
                     ELSE AttributeError_host
            IN  /\ cfg' = IF outcome.kind = "return" THEN outcome.value ELSE cfg
                /\ logfile' = Append(logfile,
                       LogError(<<"Failed to load configuration: ", e.msg>>, e))
                /\ exit(1)
    /\ UNCHANGED <<shell_vars, github_vars, mlflow_client, stdio, responses>>

\* lines 53-68
InitializeClient(outcome) ==
    /\ mpc = "client"
    /\ startup' = Append(startup, Step("client", outcome.kind = "return"))
    /\ IF outcome.kind = "return"
       THEN /\ mlflow_client' = outcome.value
            /\ logfile' = Append(logfile, LogRecord("INFO",
                   <<"MLflow client initialized: is_available=",
                     ToString(outcome.value.is_available)>>))
            /\ mpc' = "check"
            /\ UNCHANGED exit_code
       ELSE /\ logfile' = Append(logfile,
                   LogError(<<"Failed to initialize MLflow client: ",
                              outcome.exc.msg>>, outcome.exc))
            /\ exit(1)
            /\ UNCHANGED mlflow_client
    /\ UNCHANGED <<shell_vars, github_vars, cfg, stdio, responses>>

\* a check that lets an unavailable client through
CheckAvailable_Skipped ==
    /\ mpc = "check"
    /\ startup' = Append(startup, Step("available", mlflow_client.is_available))
    /\ logfile' = Append(logfile,
           LogRecord("INFO", <<"MLflow client is available and ready">>))
    /\ mpc' = "main"
    /\ UNCHANGED <<shell_vars, github_vars, cfg, mlflow_client, stdio,
                   exit_code, responses>>

\* lines 70-75
CheckAvailable ==
    /\ mpc = "check"
    /\ startup' = Append(startup, Step("available", mlflow_client.is_available))
    /\ IF ~mlflow_client.is_available
       THEN /\ logfile' = Append(logfile,
                   LogRecord("ERROR", <<"ERROR: MLflow client not available">>))
            /\ exit(1)
       ELSE /\ logfile' = Append(logfile,
                   LogRecord("INFO", <<"MLflow client is available and ready">>))
            /\ mpc' = "main"
            /\ UNCHANGED exit_code
    /\ UNCHANGED <<shell_vars, github_vars, cfg, mlflow_client, stdio, responses>>

\* lines 654-660 (and main(), lines 663-670): the records, then mcp.run()
Main ==
    /\ mpc = "main"
    /\ logfile' = logfile \o
           << LogRecord("INFO", <<"Starting MLflow MCP Server">>),
              LogRecord("INFO", <<"  Host: ", cfg.host_mlflow>>),
              LogRecord("INFO", <<"  Port: ", cfg.port_mlflow>>),
              LogRecord("INFO", <<"  Status: ",
                  IF mlflow_client.is_available THEN "Available"
                  ELSE "Unavailable">>),
              LogRecord("INFO", <<"  Log file: mlflow_server.log">>) >>
    /\ mpc' = "serving"
    /\ UNCHANGED <<shell_vars, github_vars, cfg, mlflow_client, stdio,
                   exit_code, startup, responses>>

\* mcp.run() returns at the end of the input and the module body ends
Shutdown ==
    /\ mpc = "serving"
    /\ mpc' = "exited"
    /\ exit_code' = <<0>>
    /\ UNCHANGED <<shell_vars, github_vars, cfg, mlflow_client, logfile, stdio,
                   startup, responses>>

(***************************************************************************)
(* The MLflow server: the thirteen tools.  Each operator takes the tool's  *)
(* arguments and the outcome of its call into the client, and yields what  *)
(* the tool returns and the records it logs.                               *)
(***************************************************************************)
ExperimentNames == {"yolo-training"}

RunIds == {"abc123"}

\* outcomes of a client call that returns one of values, or raises
Outcomes(values) == {Return(v) : v \in values} \cup {Raise(e) : e \in ClientErrors}

\* what a tool hands back: the value it returns and the records it logged
Returns(value, records) == [returned |-> value, logged |-> records]

\* an exception that leaves the tool
Propagates(e, records) == [returned |-> [propagated |-> e], logged |-> records]

\* lines 83-164
save_experiment(experiment_name, params0, metrics0, artifacts0, outcome) ==
    LET params == OrDict(params0)
        metrics == OrDict(metrics0)
        artifacts == OrList(artifacts0)
        debug_info ==
            [experiment_name |-> experiment_name,
             params_received |-> params,
             metrics_received |-> metrics,
             artifacts_received |-> artifacts,
             param_types |-> [k \in DOMAIN params |-> params[k].type],
             metric_types |-> [k \in DOMAIN metrics |-> metrics[k].type]]
        called ==
            << LogRecord("INFO", <<"====">>),
               LogRecord("INFO", <<"save_experiment called">>),
               LogRecord("INFO", <<"  experiment_name: ", experiment_name>>),
               LogRecord("INFO", <<"  params: {params}">>),
               LogRecord("INFO", <<"  metrics: {metrics}">>),
               LogRecord("INFO", <<"  artifacts: {artifacts}">>),
               LogRecord("DEBUG", <<"  debug_info: {debug_info}">>),
               LogRecord("INFO", <<"Calling mlflow_client.save_experiment...">>) >>
    IN  IF outcome.kind = "return"
        THEN Returns(
                 [status |-> "success",
                  run_id |-> outcome.value,
                  experiment_name |-> experiment_name,
                  params_logged |-> LenDict(params),
                  metrics_logged |-> LenDict(metrics),
                  artifacts_logged |-> Len(artifacts.items),
                  message |-> <<"Experiment '", experiment_name,
                                "' saved with run_id: ", outcome.value>>,
                  debug |-> debug_info],
                 Append(called, LogRecord("INFO",
                     <<CheckMark, " save_experiment succeeded with run_id: ",
                       outcome.value>>)))
        ELSE LET e == outcome.exc
                 error_msg ==
                     [status |-> "error",
                      error |-> e.msg,
                      error_type |-> e.type,
                      experiment_name |-> experiment_name,
                      traceback |-> format_exc(e),
                      debug |-> debug_info]
             IN  Returns(error_msg,
                     called \o
                     << LogError(<<BallotX, " save_experiment failed: ", e.msg>>, e),
                        LogRecord("ERROR",
                            <<"Error response: {json.dumps(error_msg)}">>) >>)

\* lines 172-216
get_experiment_id(experiment_name, create, outcome) ==
    LET called == << LogRecord("INFO",
                        <<"get_experiment_id called: experiment_name=",
                          experiment_name, ", create=", ToString(create)>>) >>
    IN  IF outcome.kind = "return"
        THEN IF outcome.value = None
             THEN Returns(
                      [status |-> "not_found",
                       experiment_name |-> experiment_name,
                       message |-> <<"Experiment '", experiment_name,
                                     "' not found and create=False">>],
                      Append(called, LogRecord("WARNING",
                          <<"Experiment '", experiment_name,
                            "' not found and create=False">>)))
             ELSE Returns(
                      [status |-> "success",
                       experiment_id |-> outcome.value,
                       experiment_name |-> experiment_name],
                      Append(called, LogRecord("INFO",
                          <<CheckMark, " Got experiment_id: ", outcome.value>>)))
        ELSE LET e == outcome.exc
             IN  Returns(
                     [status |-> "error",
                      error |-> e.msg,
                      error_type |-> e.type,
                      traceback |-> format_exc(e)],
                     Append(called,
                         LogError(<<BallotX, " get_experiment_id failed: ", e.msg>>, e)))

\* lines 220-262
get_last_run_id(experiment_name, outcome) ==
    LET called == << LogRecord("INFO",
                        <<"get_last_run_id called: experiment_name=",
                          experiment_name>>) >>
    IN  IF outcome.kind = "return"
        THEN IF outcome.value = None
             THEN Returns(
                      [status |-> "not_found",
                       experiment_name |-> experiment_name,
                       message |-> <<"No runs found for experiment '",
                                     experiment_name, "'">>],
                      Append(called, LogRecord("WARNING",
                          <<"No runs found for experiment '",
                            experiment_name, "'">>)))
             ELSE Returns(
                      [status |-> "success",
                       run_id |-> outcome.value,
                       experiment_name |-> experiment_name],
                      Append(called, LogRecord("INFO",
                          <<CheckMark, " Retrieved last run_id: ", outcome.value>>)))
        ELSE LET e == outcome.exc
             IN  Returns(
                     [status |-> "error",
                      error |-> e.msg,
                      error_type |-> e.type,
                      experiment_name |-> experiment_name,
                      traceback |-> format_exc(e)],
                     Append(called,
                         LogError(<<BallotX, " get_last_run_id failed: ", e.msg>>, e)))

\* the except block of the tools that take a run_id (lines 291-299,
\* 324-332, 357-365, 417-425, 506-514)
RunError(tool, run_id, e, called) ==
    Returns(
        [status |-> "error",
         error |-> e.msg,
         error_type |-> e.type,
         run_id |-> run_id,
         traceback |-> format_exc(e)],
        Append(called, LogError(<<BallotX, " ", tool, " failed: ", e.msg>>, e)))

\* lines 270-299
get_run_params(run_id, outcome) ==
    LET called == << LogRecord("INFO",
                        <<"get_run_params called: run_id=", run_id>>) >>
    IN  IF outcome.kind = "return" /\ IsDict(outcome.value)
        THEN Returns(
                 [status |-> "success",
                  run_id |-> run_id,
                  params |-> outcome.value,
                  count |-> LenDict(outcome.value)],
                 Append(called, LogRecord("INFO",
                     <<CheckMark, " Retrieved ", ToString(LenDict(outcome.value)),
                       " parameters">>)))
        ELSE RunError("get_run_params", run_id,
                 IF outcome.kind = "raise" THEN outcome.exc ELSE TypeError_len,
                 called)

\* lines 303-332
get_run_metrics(run_id, outcome) ==
    LET called == << LogRecord("INFO",
                        <<"get_run_metrics called: run_id=", run_id>>) >>
    IN  IF outcome.kind = "return" /\ IsDict(outcome.value)
        THEN Returns(
                 [status |-> "success",
                  run_id |-> run_id,
                  metrics |-> outcome.value,
                  count |-> LenDict(outcome.value)],
                 Append(called, LogRecord("INFO",
                     <<CheckMark, " Retrieved ", ToString(LenDict(outcome.value)),
                       " metrics">>)))
        ELSE RunError("get_run_metrics", run_id,
                 IF outcome.kind = "raise" THEN outcome.exc ELSE TypeError_len,
                 called)

\* lines 336-365
get_run_artifact_filenames(run_id, outcome) ==
    LET called == << LogRecord("INFO",
                        <<"get_run_artifact_filenames called: run_id=",
                          run_id>>) >>
    IN  IF outcome.kind = "return" /\ outcome.value.notdict = "list"
        THEN Returns(
                 [status |-> "success",
                  run_id |-> run_id,
                  artifacts |-> outcome.value,
                  count |-> Len(outcome.value.items)],
                 Append(called, LogRecord("INFO",
                     <<CheckMark, " Retrieved ", ToString(Len(outcome.value.items)),
                       " artifact filenames">>)))
        ELSE RunError("get_run_artifact_filenames", run_id,
                 IF outcome.kind = "raise" THEN outcome.exc ELSE TypeError_len,
                 called)

\* lines 373-425
update_run(run_id, metrics0, artifacts0, outcome) ==
    LET metrics == OrDict(metrics0)
        artifacts == OrList(artifacts0)
        called == << LogRecord("INFO",
                        <<"update_run called: run_id=", run_id,
                          ", metrics={metrics}, artifacts={artifacts}">>) >>
    IN  IF outcome.kind = "return"
        THEN Returns(
                 [status |-> "success",
                  run_id |-> run_id,
                  metrics_updated |-> LenDict(metrics),
                  artifacts_added |-> Len(artifacts.items),
                  message |-> <<"Run ", run_id, " updated successfully">>],
                 Append(called, LogRecord("INFO",
                     <<CheckMark, " update_run succeeded for run_id: ", run_id>>)))
        ELSE RunError("update_run", run_id, outcome.exc, called)

\* Path(local_dir).mkdir(parents=True, exist_ok=True), line 451
MkdirOutcomes ==
    { Return(None),
      Raise([type |-> "PermissionError", msg |-> "[Errno 13] Permission denied"]) }

\* the client was not reached
NotCalled == [kind |-> "not called"]

\* lines 433-478; downloaded is what rglob finds in local_dir afterwards
download_artifacts(run_id, local_dir, mkdir, outcome, downloaded) ==
    LET called == << LogRecord("INFO",
                        <<"download_artifacts called: run_id=", run_id,
                          ", local_dir=", local_dir>>) >>
        failed(e, records) ==
            Returns(
                [status |-> "error",
                 error |-> e.msg,
                 error_type |-> e.type,
                 run_id |-> run_id,
                 local_dir |-> local_dir,
                 traceback |-> format_exc(e)],
                Append(records,
                    LogError(<<BallotX, " download_artifacts failed: ", e.msg>>, e)))
        created == Append(called, LogRecord("DEBUG",
                       <<"Created directory: ", local_dir>>))
    IN  IF mkdir.kind = "raise" THEN failed(mkdir.exc, called)
        ELSE IF outcome.kind = "raise" THEN failed(outcome.exc, created)
        ELSE Returns(
                 [status |-> "success",
                  run_id |-> run_id,
                  local_dir |-> local_dir,
                  files_downloaded |-> downloaded,
                  count |-> Len(downloaded.items)],
                 Append(created, LogRecord("INFO",
                     <<CheckMark, " Downloaded ", ToString(Len(downloaded.items)),
                       " artifacts">>)))

\* a delete_run without its try
delete_run_Unguarded(run_id, outcome) ==
    LET called == << LogRecord("INFO",
                        <<"delete_run called: run_id=", run_id>>) >>
    IN  IF outcome.kind = "return"
        THEN Returns(
                 [status |-> "success",
                  run_id |-> run_id,
                  message |-> <<"Run ", run_id, " deleted">>],
                 Append(called, LogRecord("INFO",
                     <<CheckMark, " Deleted run: ", run_id>>)))
        ELSE Propagates(outcome.exc, called)

\* lines 486-514
delete_run(run_id, outcome) ==
    LET called == << LogRecord("INFO",
                        <<"delete_run called: run_id=", run_id>>) >>
    IN  IF outcome.kind = "return"
        THEN Returns(
                 [status |-> "success",
                  run_id |-> run_id,
                  message |-> <<"Run ", run_id, " deleted">>],
                 Append(called, LogRecord("INFO",
                     <<CheckMark, " Deleted run: ", run_id>>)))
        ELSE RunError("delete_run", run_id, outcome.exc, called)

\* the except block of the tools without a run_id (lines 543-550, 576-583,
\* 610-617, 640-647)
PlainError(tool, e, called) ==
    Returns(
        [status |-> "error",
         error |-> e.msg,
         error_type |-> e.type,
         traceback |-> format_exc(e)],
        Append(called, LogError(<<BallotX, " ", tool, " failed: ", e.msg>>, e)))

\* lines 522-550
set_tracking_local(folder_out, outcome) ==
    LET called == << LogRecord("INFO",
                        <<"set_tracking_local called: folder_out=",
                          folder_out>>) >>
    IN  IF outcome.kind = "return"
        THEN Returns(
                 [status |-> "success",
                  tracking_uri |-> folder_out,
                  type |-> "local",
                  message |-> <<"Tracking set to local folder: ", folder_out>>],
                 Append(called, LogRecord("INFO",
                     <<CheckMark, " Tracking set to local folder: ", folder_out>>)))
        ELSE PlainError("set_tracking_local", outcome.exc, called)

\* lines 554-583
set_tracking_remote(connection_string, outcome) ==
    LET called == << LogRecord("INFO",
                        <<"set_tracking_remote called: connection_string=",
                          connection_string>>) >>
    IN  IF outcome.kind = "return"
        THEN Returns(
                 [status |-> "success",
                  tracking_uri |-> connection_string,
                  type |-> "remote",
                  message |-> <<"Tracking set to remote database">>],
                 Append(called, LogRecord("INFO",
                     <<CheckMark, " Tracking set to remote database">>)))
        ELSE PlainError("set_tracking_remote", outcome.exc, called)

\* lines 591-617
get_uris(outcome) ==
    LET called == << LogRecord("INFO", <<"get_uris called">>) >>
    IN  IF outcome.kind = "return"
        THEN Returns(
                 [status |-> "success",
                  artifact_uri |-> outcome.value,
                  mlflow_host |-> cfg.host_mlflow,
                  mlflow_port |-> cfg.port_mlflow,
                  message |-> <<"Current MLflow configuration">>],
                 Append(called, LogRecord("INFO", <<CheckMark, " Retrieved URIs">>)))
        ELSE PlainError("get_uris", outcome.exc, called)

\* lines 621-647; outcome is the read of mlflow_client.is_available
health_check(outcome) ==
    LET called == << LogRecord("INFO", <<"health_check called">>) >>
    IN  IF outcome.kind = "return"
        THEN LET status == IF outcome.value THEN "healthy" ELSE "unhealthy"
             IN  Returns(
                     [status |-> status,
                      mlflow_available |-> outcome.value,
                      host |-> cfg.host_mlflow,
                      port |-> cfg.port_mlflow],
                     Append(called, LogRecord("INFO",
                         <<CheckMark, " health_check: ", status>>)))
        ELSE PlainError("health_check", outcome.exc, called)

(***************************************************************************)
(* The MLflow server as a state machine.                                   *)
(***************************************************************************)
\* FastMCP calls a tool and answers with what it returned (an exception
\* that left the tool would be answered as a tool error by FastMCP)
Serve(tool, outcome, result) ==
    /\ mpc = "serving"
    /\ Len(responses) < MaxCalls
    /\ responses' = Append(responses,
           [tool |-> tool, outcome |-> outcome, returned |-> result.returned])
    /\ logfile' = logfile \o result.logged
    /\ UNCHANGED <<shell_vars, github_vars, mpc, cfg, stdio, exit_code, startup>>

\* the arguments of a save_experiment or update_run call: all optional ones
\* left out, or all given
OptionalArgs ==
    { <<NoneType, NoneType, NoneType>>,
      <<[model |-> Str("yolov8n")], [mAP50 |-> Float("0.85")],
        List(<<"model.onnx">>)>> }

SaveExperiment ==
    \E name \in ExperimentNames, args \in OptionalArgs, outcome \in Outcomes(RunIds) :
        /\ Serve("save_experiment", outcome,
                 save_experiment(name, args[1], args[2], args[3], outcome))
        /\ UNCHANGED mlflow_client

GetExperimentId ==
    \E name \in ExperimentNames, create \in BOOLEAN,
       outcome \in Outcomes({"7", None}) :
        /\ Serve("get_experiment_id", outcome,
                 get_experiment_id(name, create, outcome))
        /\ UNCHANGED mlflow_client

GetLastRunId ==
    \E name \in ExperimentNames, outcome \in Outcomes(RunIds \cup {None}) :
        /\ Serve("get_last_run_id", outcome, get_last_run_id(name, outcome))
        /\ UNCHANGED mlflow_client

GetRunParams ==
    \E run_id \in RunIds,
       outcome \in Outcomes({[model |-> Str("yolov8n")], NoneType}) :
        /\ Serve("get_run_params", outcome, get_run_params(run_id, outcome))
        /\ UNCHANGED mlflow_client

GetRunMetrics ==
    \E run_id \in RunIds,
       outcome \in Outcomes({[mAP50 |-> Float("0.85")], NoneType}) :
        /\ Serve("get_run_metrics", outcome, get_run_metrics(run_id, outcome))
        /\ UNCHANGED mlflow_client

GetRunArtifactFilenames ==
    \E run_id \in RunIds,
       outcome \in Outcomes({List(<<"model.onnx">>), NoneType}) :
        /\ Serve("get_run_artifact_filenames", outcome,
                 get_run_artifact_filenames(run_id, outcome))
        /\ UNCHANGED mlflow_client

UpdateRun ==
    \E run_id \in RunIds, args \in OptionalArgs, outcome \in Outcomes({None}) :
        /\ Serve("update_run", outcome,
                 update_run(run_id, args[2], args[3], outcome))
        /\ UNCHANGED mlflow_client

DownloadArtifacts ==
    \E run_id \in RunIds, mkdir \in MkdirOutcomes, outcome \in Outcomes({None}) :
        /\ Serve("download_artifacts",
                 IF mkdir.kind = "raise" THEN NotCalled ELSE outcome,
                 download_artifacts(run_id, "/tmp/artifacts", mkdir, outcome,
                                    List(<<"model.onnx">>)))
        /\ UNCHANGED mlflow_client

DeleteRun ==
    \E run_id \in RunIds, outcome \in Outcomes({None}) :
        /\ Serve("delete_run", outcome, delete_run(run_id, outcome))
        /\ UNCHANGED mlflow_client

\* the client is re-pointed at another store, which it may or may not reach:
\* available is its is_available after a call that returned
SetTrackingLocal ==
    \E outcome \in Outcomes({None}), available \in BOOLEAN :
        /\ Serve("set_tracking_local", outcome,
                 set_tracking_local("/tmp/mlruns", outcome))
        /\ mlflow_client' =
               IF outcome.kind = "return"
               THEN [mlflow_client EXCEPT !.is_available = available]
               ELSE mlflow_client

SetTrackingRemote ==
    \E outcome \in Outcomes({None}), available \in BOOLEAN :
        /\ Serve("set_tracking_remote", outcome,
                 set_tracking_remote("postgresql://mlflow@db/mlflow", outcome))
        /\ mlflow_client' =
               IF outcome.kind = "return"
               THEN [mlflow_client EXCEPT !.is_available = available]
               ELSE mlflow_client

GetUris ==
    \E outcome \in Outcomes({"s3://bucket/artifacts"}) :
        /\ Serve("get_uris", outcome, get_uris(outcome))
        /\ UNCHANGED mlflow_client

\* the attribute read of line 631 yields the attribute
HealthCheck ==
    /\ Serve("health_check", Return(mlflow_client.is_available),
             health_check(Return(mlflow_client.is_available)))
    /\ UNCHANGED mlflow_client

\* the shell server is not part of this process
ShellIdle ==
    /\ environ = EmptyDict
    /\ root = ShellInit(environ)
    /\ pc = "read"
    /\ cur = NoCall
    /\ stdout = <<>>
    /\ inflight = 0
    /\ executed = <<>>
    /\ log = <<>>
    /\ stolen = 0

InitMLflow ==
    /\ ShellIdle
    /\ MLflowInit
    /\ GitHubInit

NextMLflow ==
    \/ \E outcome \in ConfigOutcomes : LoadConfiguration(outcome)
    \/ \E outcome \in ClientOutcomes : InitializeClient(outcome)
    \/ CheckAvailable
    \/ Main
    \/ Shutdown
    \/ SaveExperiment
    \/ GetExperimentId
    \/ GetLastRunId
    \/ GetRunParams
    \/ GetRunMetrics
    \/ GetRunArtifactFilenames
    \/ UpdateRun
    \/ DownloadArtifacts
    \/ DeleteRun
    \/ SetTrackingLocal
    \/ SetTrackingRemote
    \/ GetUris
    \/ HealthCheck

SpecMLflow == InitMLflow /\ [][NextMLflow]_vars

(***************************************************************************)
(* C24.  Every MLflow tool turns an exception raised by the client into a  *)
(* returned value with status "error" that carries the exception's text    *)
(* and type; no exception leaves a tool; and a tool returns status         *)
(* "success" or "healthy" only when its client call did not raise.         *)
(***************************************************************************)
MLflowTools ==
    { "save_experiment", "get_experiment_id", "get_last_run_id",
      "get_run_params", "get_run_metrics", "get_run_artifact_filenames",
      "update_run", "download_artifacts", "delete_run", "set_tracking_local",
      "set_tracking_remote", "get_uris", "health_check" }

ClientRaised(r) == r.outcome.kind = "raise"

ReturnedValue(r) == "status" \in DOMAIN r.returned

C24_ClientErrorsBecomeErrorValues ==
    \A i \in 1..Len(responses) :
        LET r == responses[i]
        IN  /\ r.tool \in MLflowTools
            /\ ReturnedValue(r)
            /\ ClientRaised(r) =>
                   /\ r.returned.status = "error"
                   /\ r.returned.error = r.outcome.exc.msg
                   /\ r.returned.error_type = r.outcome.exc.type
            /\ r.returned.status \in {"success", "healthy"} =>
                   r.outcome.kind = "return"

\* a delete_run whose client call raised has been answered, after a call
\* that succeeded
C24_Witness ==
    /\ Len(responses) = 2
    /\ responses[1].returned.status = "success"
    /\ responses[2].tool = "delete_run"
    /\ ClientRaised(responses[2])
    /\ responses[2].returned.status = "error"

(***************************************************************************)
(* C25.  The MLflow server serves tool requests only if the configuration  *)
(* was loaded, the client was constructed and the client reported          *)
(* is_available; when one of the three steps fails the process exits with  *)
(* code 1 before it serves any request, the diagnostic is a record of the  *)
(* log file, and nothing is written to stdout or stderr.                   *)
(***************************************************************************)
StepFailed == \E i \in 1..Len(startup) : ~startup[i].ok

AllStepsSucceeded ==
    /\ Len(startup) = 3
    /\ \A i \in 1..3 : startup[i].ok

GITHUB_API == "https://api.github.com"

\* os.environ of the GitHub server process
GitHubEnvirons ==
    {EmptyDict, [GITHUB_TOKEN |-> "ghp_token"], [GITHUB_TOKEN |-> ""]}

\* lines 16-24
gh_headers(env) ==
    LET headers == ("Accept" :> <<"application/vnd.github+json">>
                    @@ "User-Agent" :> <<"mcp-fastmcp-demo">>)
        token == Get(env, "GITHUB_TOKEN", None)
    IN  IF token # None /\ token # ""
        THEN headers @@ ("Authorization" :> <<"Bearer ", token>>)
        ELSE headers

\* request.Request(url, headers=_gh_headers())
Request(env, url) == [url |-> url, headers |-> gh_headers(env)]

\* repo.split("/", 1)
split(repo) ==
    LET slashes == {i \in 1..Len(repo) : repo[i] = "/"}
    IN  IF slashes = {} THEN <<repo>>
        ELSE LET i == CHOOSE k \in slashes : \A j \in slashes : k <= j
             IN  <<SubSeq(repo, 1, i - 1), SubSeq(repo, i + 1, Len(repo))>>

\* the unpacking `owner, name = ...' of a list of one element
ValueError_unpack ==
    [type |-> "ValueError",
     msg |-> "not enough values to unpack (expected 2, got 1)"]

\* a choice that keeps the last artifact of that name
SelectArtifact_Last(artifacts, artifact_name) ==
    LET matches == {i \in 1..Len(artifacts) :
                        Get(artifacts[i], "name", None) = artifact_name}
    IN  IF matches = {} THEN <<>>
        ELSE LET i == CHOOSE k \in matches : \A j \in matches : k >= j
             IN  IF "id" \in DOMAIN artifacts[i] THEN <<artifacts[i].id>>
                 ELSE <<>>

\* lines 204-208: artifact_id after the loop, <<>> for None and <<id>> for
\* an id
SelectArtifact(artifacts, artifact_name) ==
    LET matches == {i \in 1..Len(artifacts) :
                        Get(artifacts[i], "name", None) = artifact_name}
    IN  IF matches = {} THEN <<>>
        ELSE LET i == CHOOSE k \in matches : \A j \in matches : k <= j
             IN  IF "id" \in DOMAIN artifacts[i] THEN <<artifacts[i].id>>
                 ELSE <<>>

\* `file_path in filename or filename.endswith(file_path)', chunk by chunk
MatchesPath(file_path, filename) ==
    \E i \in 1..(Len(filename) - Len(file_path) + 1) :
        SubSeq(filename, i, i + Len(file_path) - 1) = file_path

\* the character U+FFFD that replaces what cannot be decoded
Replacement == "U+FFFD"

\* bytes.decode('utf-8', errors='replace')
DecodeReplace(bytes) ==
    [i \in 1..Len(bytes) |->
        IF bytes[i] = Undecodable THEN Replacement ELSE bytes[i]]

\* json.dumps({"error": text})
json_dumps_errorvalue(text) == <<"{\"error\": ">> \o json_dumps_str(text) \o <<"}">>

\* a tool that returns text, and a tool that an exception leaves
Returned(text) == [returned |-> text]

Raised(e) == [raised |-> e]

\* lines 221-229: the archive is opened and its members are walked
ReadArchive(archive, file_path) ==
    IF ~archive.zip
    THEN Returned(json_dumps_errorvalue(<<"File is not a zip file">>))
    ELSE LET members == archive.members
             hits == {i \in 1..Len(members) :
                          MatchesPath(file_path, members[i].filename)}
         IN  IF hits = {}
             THEN Returned(json_dumps_errorvalue(
                      <<"File '">> \o file_path \o <<"' not found in artifact">>))
             ELSE LET m == members[CHOOSE k \in hits : \A j \in hits : k <= j]
                  IN  IF m.data.kind = "raise"
                      THEN Returned(json_dumps_errorvalue(<<m.data.exc.msg>>))
                      ELSE Returned(DecodeReplace(m.data.value))

\* lines 199-231; listing is the outcome of the artifacts request and
\* download the outcome of the zip request.  The result is the requests
\* handed to urlopen, in order, and what the tool returned or raised.
github_get_artifact_file(env, repo, run_id, artifact_name, file_path, listing, download) ==
    LET parts == split(repo)
    IN  IF Len(parts) < 2
        THEN [opened |-> <<>>, result |-> Raised(ValueError_unpack)]
        ELSE
        LET owner == parts[1]
            name == parts[2]
            base == <<GITHUB_API, "/repos/">> \o owner \o <<"/">> \o name
            list_req == Request(env,
                base \o <<"/actions/runs/", run_id, "/artifacts">>)
        IN  IF listing.kind = "raise"
            THEN [opened |-> <<list_req>>, result |-> Raised(listing.exc)]
            ELSE
            LET artifact_id ==
                    SelectArtifact(Get(listing.value, "artifacts", <<>>),
                                   artifact_name)
            IN  IF artifact_id = <<>> \/ artifact_id[1] = 0
                THEN [opened |-> <<list_req>>,
                      result |-> Returned(json_dumps_errorvalue(
                          <<"Artifact '", artifact_name, "' not found">>))]
                ELSE
                LET zip_req == Request(env,
                        base \o <<"/actions/artifacts/",
                                  ToString(artifact_id[1]), "/zip">>)
                IN  [opened |-> <<list_req, zip_req>>,
                     result |->
                        IF download.kind = "raise"
                        THEN Returned(json_dumps_errorvalue(<<download.exc.msg>>))
                        ELSE ReadArchive(download.value, file_path)]

\* inputs of the model
Repos == { <<"octo", "/", "demo">>, <<"demo">> }

ArtifactNames == {"report", "logs"}

FilePaths == { <<"report.txt">>, <<"missing.txt">> }

HTTPError_404 == [type |-> "HTTPError", msg |-> "HTTP Error 404: Not Found"]

HTTPError_410 == [type |-> "HTTPError", msg |-> "HTTP Error 410: Gone"]

BadZipFile_crc == [type |-> "BadZipFile", msg |-> "Bad CRC-32 for file 'report.txt'"]

\* what the artifacts request gives: two artifacts named "report" after one
\* named "logs"; a run with the "logs" artifact only; a body without an
\* "artifacts" key; an HTTP error
Listings ==
    { Return([total_count |-> 3,
              artifacts |-> << [id |-> 11, name |-> "logs"],
                               [id |-> 12, name |-> "report"],
                               [id |-> 13, name |-> "report"] >>]),
      Return([total_count |-> 1,
              artifacts |-> << [id |-> 11, name |-> "logs"] >>]),
      Return([total_count |-> 0]),
      Raise(HTTPError_404) }

\* what the zip request gives: an archive whose report.txt holds a byte
\* that is not UTF-8; an archive whose report.txt fails its CRC; a body
\* that is no archive; an HTTP error
Downloads ==
    { Return([zip |-> TRUE,
              members |-> << [filename |-> <<"summary.md">>,
                              data |-> Return(<<"ok">>)],
                             [filename |-> <<"out", "/", "report.txt">>,
                              data |-> Return(<<"passed ", Undecodable>>)] >>]),
      Return([zip |-> TRUE,
              members |-> << [filename |-> <<"report.txt">>,
                              data |-> Raise(BadZipFile_crc)] >>]),
      Return([zip |-> FALSE]),
      Raise(HTTPError_410) }

\* a request the call never came to make
NotRequested == [kind |-> "not requested"]

\* one call of the tool by FastMCP
GetArtifactFile ==
    /\ Len(fetched) < MaxCalls
    /\ \E repo \in Repos, artifact_name \in ArtifactNames,
          file_path \in FilePaths, listing \in Listings, download \in Downloads :
          LET call == github_get_artifact_file(environ, repo, "77",
                          artifact_name, file_path, listing, download)
          IN  /\ fetched' = Append(fetched,
                     [artifact_name |-> artifact_name,
                      file_path |-> file_path,
                      listing |-> IF Len(call.opened) >= 1 THEN listing
                                  ELSE NotRequested,
                      download |-> IF Len(call.opened) = 2 THEN download
                                   ELSE NotRequested,
                      opened |-> call.opened,
                      result |-> call.result])
              /\ urlopened' = urlopened \o call.opened
    /\ UNCHANGED <<shell_vars, mlflow_vars>>

InitGitHub ==
    /\ environ \in GitHubEnvirons
    /\ root = ShellInit(EmptyDict)
    /\ pc = "read"
    /\ cur = NoCall
    /\ stdout = <<>>
    /\ inflight = 0
    /\ executed = <<>>
    /\ log = <<>>
    /\ stolen = 0
    /\ MLflowInit
    /\ GitHubInit

NextGitHub == GetArtifactFile

SpecGitHub == InitGitHub /\ [][NextGitHub]_vars

(***************************************************************************)
(* C26.  github_get_artifact_file first lists the artifacts of the run and *)
(* selects the first one whose name equals artifact_name; when none        *)
(* matches it returns the "Artifact not found" error value and issues no   *)
(* download request; when the download or the reading of the archive       *)
(* fails after a match it returns an error value and does not raise.       *)
(***************************************************************************)
\* the positions of the listed artifacts named as the call asks
Named(c) ==
    LET artifacts == Get(c.listing.value, "artifacts", <<>>)
    IN  {i \in 1..Len(artifacts) : artifacts[i].name = c.artifact_name}

IsListRequest(req) ==
    /\ Len(req.url) = 8
    /\ req.url[6] = "/actions/runs/"
    /\ req.url[8] = "/artifacts"

IsZipRequest(req) ==
    /\ Len(req.url) = 8
    /\ req.url[6] = "/actions/artifacts/"
    /\ req.url[8] = "/zip"

\* the download, or the reading of the member asked for, failed
DownloadFailed(c) ==
    \/ c.download.kind = "raise"
    \/ /\ c.download.kind = "return"
       /\ \/ ~c.download.value.zip
          \/ \E i \in 1..Len(c.download.value.members) :
                LET m == c.download.value.members[i]
                IN  /\ MatchesPath(c.file_path, m.filename)
                    /\ m.data.kind = "raise"

IsErrorValue(result) ==
    /\ "returned" \in DOMAIN result
    /\ Len(result.returned) >= 1
    /\ result.returned[1] = "{\"error\": "

C26_ArtifactSelection ==
    \A n \in 1..Len(fetched) :
        LET c == fetched[n]
        IN  c.listing.kind = "return" =>
                /\ IsListRequest(c.opened[1])
                /\ \A k \in 2..Len(c.opened) : ~IsListRequest(c.opened[k])
                /\ Named(c) = {} =>
                       /\ c.result = Returned(json_dumps_errorvalue(
                              <<"Artifact '", c.artifact_name, "' not found">>))
                       /\ Len(c.opened) = 1
                /\ Named(c) # {} =>
                       LET first == CHOOSE k \in Named(c) :
                                        \A j \in Named(c) : k <= j
                       IN  /\ Len(c.opened) = 2
                           /\ IsZipRequest(c.opened[2])
                           /\ c.opened[2].url[7] =
                                  ToString(c.listing.value.artifacts[first].id)
                           /\ DownloadFailed(c) => IsErrorValue(c.result)

\* a call that found two artifacts of the name and whose download failed,
\* after a call that found none
C26_Witness ==
    /\ Len(fetched) = 2
    /\ fetched[1].listing.kind = "return"
    /\ Named(fetched[1]) = {}
    /\ fetched[2].listing.kind = "return"
    /\ Cardinality(Named(fetched[2])) = 2
    /\ DownloadFailed(fetched[2])

====
